---- MODULE Spec2Model ----
(***************************************************************************)
(* A model of src/src/record.js (the current version, lines 1-531): the    *)
(* EBML reader readEBML with its VINT helpers, and the rewriting pass      *)
(* fixFPS that runs over a recorded WebM buffer.                           *)
(*                                                                         *)
(* Buffers are sequences of bytes.  A JavaScript offset o is position o+1  *)
(* of the sequence.  A DataView over the buffer is a record                *)
(* [start, byteLength]; it aliases the buffer, so its bytes are read from  *)
(* the current value of the buffer.                                        *)
(***************************************************************************)
EXTENDS FiniteSets, Integers, Sequences, TLC

RECURSIVE Pow2(_)
Pow2(n) == IF n = 0 THEN 1 ELSE 2 * Pow2(n - 1)

RECURSIVE Flatten(_)
Flatten(ss) == IF ss = <<>> THEN <<>> ELSE Head(ss) \o Flatten(Tail(ss))

(* JavaScript's undefined, where the code stores it in a numeric slot      *)
(* (el.length of an unknown-size element, timecodeScaleSize before the     *)
(* first TimecodeScale).  Arithmetic on it yields NaN.                     *)
undefined == -1

(* Every integer of the model below Huge is exact.  Where a number is only *)
(* compared with offsets of the buffer (an identifier looked up in the     *)
(* schema, el.length handed to DataView, the reader's cursor), Huge stands *)
(* for any value of at least 2^30: larger than every identifier of the     *)
(* schema and than every buffer of the model.                              *)
Huge == Pow2(30)

(* A number whose value is read beyond such comparisons (the size a        *)
(* reader decodes, at most 2^53 - 1; timecodeScaleSize) is held exactly as *)
(* the pair <<high, low>> of the integers with value = high * 2^30 + low   *)
(* and 0 <= low < 2^30.                                                    *)
Wide(n) == << n \div Huge, n % Huge >>

(* undefined in a slot that holds such a pair.                             *)
WideUndefined == << undefined, undefined >>

(* The saturated integer of a pair: its value below Huge, Huge from there. *)
Saturated(w) == IF w[1] > 0 THEN Huge ELSE w[2]

(* w * 256 + byte, for a result below 2^53.                                *)
WideShiftAdd(w, byte) ==
  << w[1] * 256 + w[2] \div Pow2(22), (w[2] % Pow2(22)) * 256 + byte >>

RECURSIVE WideAccumulate(_, _)
WideAccumulate(w, bytes) ==
  IF bytes = <<>> THEN w
  ELSE WideAccumulate(WideShiftAdd(w, Head(bytes)), Tail(bytes))

(* (a - w) modulo 2^32 for an integer 0 <= a < 2^30: what setUint32 keeps  *)
(* of the double a - w, which is exact for |a - w| < 2^53.                 *)
WideSub32(a, w) ==
  LET borrow == IF a < w[2] THEN 1 ELSE 0
  IN << (8 - (w[1] % 4) - borrow) % 4, a - w[2] + borrow * Huge >>

(***************************************************************************)
(* The schema table: identifier -> element name.                           *)
(***************************************************************************)
schema ==
  {
    <<\h80, "ChapterDisplay">>, <<\h83, "TrackType">>, <<\h85, "ChapString">>,
    <<\h86, "CodecID">>, <<\h88, "FlagDefault">>, <<\h89, "ChapterTrackNumber">>,
    <<\h91, "ChapterTimeStart">>, <<\h92, "ChapterTimeEnd">>, <<\h96, "CueRefTime">>,
    <<\h97, "CueRefCluster">>, <<\h98, "ChapterFlagHidden">>, <<\h4254, "ContentCompAlgo">>,
    <<\h4255, "ContentCompSettings">>, <<\h4282, "DocType">>, <<\h4285, "DocTypeReadVersion">>,
    <<\h4286, "EBMLVersion">>, <<\h4287, "DocTypeVersion">>, <<\h4444, "SegmentFamily">>,
    <<\h4461, "DateUTC">>, <<\h4484, "TagDefault">>, <<\h4485, "TagBinary">>,
    <<\h4487, "TagString">>, <<\h4489, "Duration">>, <<\h4598, "ChapterFlagEnabled">>,
    <<\h4660, "FileMimeType">>, <<\h4661, "FileUsedStartTime">>, <<\h4662, "FileUsedEndTime">>,
    <<\h4675, "FileReferral">>, <<\h5031, "ContentEncodingOrder">>,
    <<\h5032, "ContentEncodingScope">>, <<\h5033, "ContentEncodingType">>,
    <<\h5034, "ContentCompression">>, <<\h5035, "ContentEncryption">>,
    <<\h5378, "CueBlockNumber">>, <<\h5654, "ChapterStringUID">>, <<\h5741, "WritingApp">>,
    <<\h5854, "SilentTracks">>, <<\h6240, "ContentEncoding">>, <<\h6264, "BitDepth">>,
    <<\h6532, "SignedElement">>, <<\h6624, "TrackTranslate">>, <<\h6911, "ChapProcessCommand">>,
    <<\h6922, "ChapProcessTime">>, <<\h6924, "ChapterTranslate">>, <<\h6933, "ChapProcessData">>,
    <<\h6944, "ChapProcess">>, <<\h6955, "ChapProcessCodecID">>, <<\h7373, "Tag">>,
    <<\h7384, "SegmentFilename">>, <<\h7446, "AttachmentLink">>, <<\h258688, "CodecName">>,
    <<\h18538067, "Segment">>, <<\h447a, "TagLanguage">>, <<\h45a3, "TagName">>,
    <<\h67c8, "SimpleTag">>, <<\h63c6, "TagAttachmentUID">>, <<\h63c4, "TagChapterUID">>,
    <<\h63c9, "TagEditionUID">>, <<\h63c5, "TagTrackUID">>, <<\h63ca, "TargetType">>,
    <<\h68ca, "TargetTypeValue">>, <<\h63c0, "Targets">>, <<\h1254c367, "Tags">>,
    <<\h450d, "ChapProcessPrivate">>, <<\h437e, "ChapCountry">>, <<\h437c, "ChapLanguage">>,
    <<\h8f, "ChapterTrack">>, <<\h63c3, "ChapterPhysicalEquiv">>,
    <<\h6ebc, "ChapterSegmentEditionUID">>, <<\h6e67, "ChapterSegmentUID">>,
    <<\h73c4, "ChapterUID">>, <<\hb6, "ChapterAtom">>, <<\h45dd, "EditionFlagOrdered">>,
    <<\h45db, "EditionFlagDefault">>, <<\h45bd, "EditionFlagHidden">>, <<\h45bc, "EditionUID">>,
    <<\h45b9, "EditionEntry">>, <<\h1043a770, "Chapters">>, <<\h46ae, "FileUID">>,
    <<\h465c, "FileData">>, <<\h466e, "FileName">>, <<\h467e, "FileDescription">>,
    <<\h61a7, "AttachedFile">>, <<\h1941a469, "Attachments">>, <<\heb, "CueRefCodecState">>,
    <<\h535f, "CueRefNumber">>, <<\hdb, "CueReference">>, <<\hea, "CueCodecState">>,
    <<\hb2, "CueDuration">>, <<\hf0, "CueRelativePosition">>, <<\hf1, "CueClusterPosition">>,
    <<\hf7, "CueTrack">>, <<\hb7, "CueTrackPositions">>, <<\hb3, "CueTime">>,
    <<\hbb, "CuePoint">>, <<\h1c53bb6b, "Cues">>, <<\h47e6, "ContentSigHashAlgo">>,
    <<\h47e5, "ContentSigAlgo">>, <<\h47e4, "ContentSigKeyID">>, <<\h47e3, "ContentSignature">>,
    <<\h47e2, "ContentEncKeyID">>, <<\h47e1, "ContentEncAlgo">>, <<\h6d80, "ContentEncodings">>,
    <<\hc4, "TrickMasterTrackSegmentUID">>, <<\hc7, "TrickMasterTrackUID">>,
    <<\hc6, "TrickTrackFlag">>, <<\hc1, "TrickTrackSegmentUID">>, <<\hc0, "TrickTrackUID">>,
    <<\hed, "TrackJoinUID">>, <<\he9, "TrackJoinBlocks">>, <<\he6, "TrackPlaneType">>,
    <<\he5, "TrackPlaneUID">>, <<\he4, "TrackPlane">>, <<\he3, "TrackCombinePlanes">>,
    <<\he2, "TrackOperation">>, <<\h7d7b, "ChannelPositions">>, <<\h9f, "Channels">>,
    <<\h78b5, "OutputSamplingFrequency">>, <<\hb5, "SamplingFrequency">>, <<\he1, "Audio">>,
    <<\h2383e3, "FrameRate">>, <<\h2fb523, "GammaValue">>, <<\h2eb524, "ColourSpace">>,
    <<\h54b3, "AspectRatioType">>, <<\h54b2, "DisplayUnit">>, <<\h54ba, "DisplayHeight">>,
    <<\h54b0, "DisplayWidth">>, <<\h54dd, "PixelCropRight">>, <<\h54cc, "PixelCropLeft">>,
    <<\h54bb, "PixelCropTop">>, <<\h54aa, "PixelCropBottom">>, <<\hba, "PixelHeight">>,
    <<\hb0, "PixelWidth">>, <<\h53b9, "OldStereoMode">>, <<\h53c0, "AlphaMode">>,
    <<\h53b8, "StereoMode">>, <<\h9a, "FlagInterlaced">>, <<\he0, "Video">>,
    <<\h66a5, "TrackTranslateTrackID">>, <<\h66bf, "TrackTranslateCodec">>,
    <<\h66fc, "TrackTranslateEditionUID">>, <<\h56bb, "SeekPreRoll">>, <<\h56aa, "CodecDelay">>,
    <<\h6fab, "TrackOverlay">>, <<\haa, "CodecDecodeAll">>, <<\h26b240, "CodecDownloadURL">>,
    <<\h3b4040, "CodecInfoURL">>, <<\h3a9697, "CodecSettings">>, <<\h63a2, "CodecPrivate">>,
    <<\h22b59c, "Language">>, <<\h536e, "Name">>, <<\h55ee, "MaxBlockAdditionID">>,
    <<\h537f, "TrackOffset">>, <<\h23314f, "TrackTimecodeScale">>,
    <<\h234e7a, "DefaultDecodedFieldDuration">>, <<\h23e383, "DefaultDuration">>,
    <<\h6df8, "MaxCache">>, <<\h6de7, "MinCache">>, <<\h9c, "FlagLacing">>,
    <<\h55aa, "FlagForced">>, <<\hb9, "FlagEnabled">>, <<\h73c5, "TrackUID">>,
    <<\hd7, "TrackNumber">>, <<\hae, "TrackEntry">>, <<\h1654ae6b, "Tracks">>,
    <<\haf, "EncryptedBlock">>, <<\hca, "ReferenceTimeCode">>, <<\hc9, "ReferenceOffset">>,
    <<\hc8, "ReferenceFrame">>, <<\hcf, "SliceDuration">>, <<\hce, "Delay">>,
    <<\hcb, "BlockAdditionID">>, <<\hcd, "FrameNumber">>, <<\hcc, "LaceNumber">>,
    <<\he8, "TimeSlice">>, <<\h8e, "Slices">>, <<\h75a2, "DiscardPadding">>,
    <<\ha4, "CodecState">>, <<\hfd, "ReferenceVirtual">>, <<\hfb, "ReferenceBlock">>,
    <<\hfa, "ReferencePriority">>, <<\h9b, "BlockDuration">>, <<\ha5, "BlockAdditional">>,
    <<\hee, "BlockAddID">>, <<\ha6, "BlockMore">>, <<\h75a1, "BlockAdditions">>,
    <<\ha2, "BlockVirtual">>, <<\ha1, "Block">>, <<\ha0, "BlockGroup">>, <<\ha3, "SimpleBlock">>,
    <<\hab, "PrevSize">>, <<\ha7, "Position">>, <<\h58d7, "SilentTrackNumber">>,
    <<\he7, "Timecode">>, <<\h1f43b675, "Cluster">>, <<\h4d80, "MuxingApp">>, <<\h7ba9, "Title">>,
    <<\h2ad7b2, "TimecodeScaleDenominator">>, <<\h2ad7b1, "TimecodeScale">>,
    <<\h69a5, "ChapterTranslateID">>, <<\h69bf, "ChapterTranslateCodec">>,
    <<\h69fc, "ChapterTranslateEditionUID">>, <<\h3e83bb, "NextFilename">>,
    <<\h3eb923, "NextUID">>, <<\h3c83ab, "PrevFilename">>, <<\h3cb923, "PrevUID">>,
    <<\h73a4, "SegmentUID">>, <<\h1549a966, "Info">>, <<\h53ac, "SeekPosition">>,
    <<\h53ab, "SeekID">>, <<\h4dbb, "Seek">>, <<\h114d9b74, "SeekHead">>,
    <<\h7e7b, "SignatureElementList">>, <<\h7e5b, "SignatureElements">>, <<\h7eb5, "Signature">>,
    <<\h7ea5, "SignaturePublicKey">>, <<\h7e9a, "SignatureHash">>, <<\h7e8a, "SignatureAlgo">>,
    <<\h1b538667, "SignatureSlot">>, <<\hbf, "CRC-32">>, <<\hec, "Void">>,
    <<\h42f3, "EBMLMaxSizeLength">>, <<\h42f2, "EBMLMaxIDLength">>, <<\h42f7, "EBMLReadVersion">>,
    <<\h1a45dfa3, "EBML">>
  }
schemaIds == { e[1] : e \in schema }

(* schema.get(id); "undefined" when the identifier is not a key.           *)
schemaGet(id) ==
  IF id \in schemaIds THEN (CHOOSE e \in schema : e[1] = id)[2] ELSE "undefined"

(***************************************************************************)
(* DataView                                                                *)
(***************************************************************************)
(* new DataView(buffer, start, length) throws a RangeError when the view   *)
(* does not fit the buffer; an undefined length means "to the end".        *)
ViewFits(buf, start, length) ==
  /\ start <= Len(buf)
  /\ length = undefined \/ start + length <= Len(buf)

NewDataView(buf, start, length) ==
  [start |-> start,
   byteLength |-> IF length = undefined THEN Len(buf) - start ELSE length]

(* data.getUint8(i), for i inside the view.                                *)
getUint8(buf, data, i) == buf[data.start + i + 1]

(***************************************************************************)
(* VINT helpers                                                            *)
(***************************************************************************)
(* lengthByte & (1 << k) is non-zero.                                      *)
BitSet(lengthByte, k) == (lengthByte \div Pow2(k)) % 2 = 1

(* The for loop runs length = 1..8 and breaks at the first set bit; when   *)
(* no bit is set it runs out and leaves length = 9.                        *)
readVintLength(buf, data, start) ==
  LET lengthByte == getUint8(buf, data, start)
      hits == { length \in 1..8 : BitSet(lengthByte, 8 - length) }
  IN IF hits = {} THEN 9
     ELSE CHOOSE length \in hits : \A other \in hits : length <= other

(* value *= 1 << 8; value += byte, for an identifier: exact below Huge.    *)
ShiftAdd(value, byte) ==
  IF value >= Pow2(22) THEN Huge ELSE value * 256 + byte

RECURSIVE Accumulate(_, _)
Accumulate(value, bytes) ==
  IF bytes = <<>> THEN value
  ELSE Accumulate(ShiftAdd(value, Head(bytes)), Tail(bytes))

(* The bytes start+1 .. start+length-1 of the view.                        *)
RestBytes(buf, data, length, start) ==
  [i \in 1..(length - 1) |-> getUint8(buf, data, start + i)]

RECURSIVE StripZeros(_)
StripZeros(bytes) ==
  IF bytes # <<>> /\ Head(bytes) = 0 THEN StripZeros(Tail(bytes)) ELSE bytes

(* value > Number.MAX_SAFE_INTEGER, decided on the big-endian bytes:       *)
(* 2^53 is the 7-byte number 20 00 00 00 00 00 00.                         *)
ExceedsSafeInteger(bytes) ==
  LET sig == StripZeros(bytes)
  IN Len(sig) > 7 \/ (Len(sig) = 7 /\ Head(sig) >= 32)

(* The first byte with the marker bits masked off:                         *)
(* byte & ((1 << (8 - length)) - 1).  With length = 9 the byte is 0.       *)
MaskedFirst(byte, length) ==
  IF length <= 8 THEN byte % Pow2(8 - length) ELSE byte

(* The value, exact; WideUndefined stands for the -1 of a value above      *)
(* Number.MAX_SAFE_INTEGER.                                                *)
readVintValue(buf, data, length, start) ==
  LET first == MaskedFirst(getUint8(buf, data, start), length)
      rest == RestBytes(buf, data, length, start)
  IN IF ExceedsSafeInteger(<<first>> \o rest) THEN WideUndefined
     ELSE WideAccumulate(Wide(first), rest)

readVint(buf, data, length, start) ==
  Accumulate(getUint8(buf, data, start), RestBytes(buf, data, length, start))

(***************************************************************************)
(* readEBML: one turn of the generator's loop at `cursor` of the view      *)
(* `data`: the element it yields, or the error it throws.                  *)
(***************************************************************************)
NoView == [start |-> 0, byteLength |-> 0]

Thrown(error) ==
  [error |-> error, tag |-> "undefined", tagBytes |-> NoView, sizeBytes |-> NoView,
   start |-> 0, length |-> undefined, size |-> -1, exact |-> WideUndefined]

readEBMLStep(buf, data, cursor) ==
  LET idLength == readVintLength(buf, data, cursor)
      sizeAt == cursor + idLength
  IN
  IF sizeAt > data.byteLength THEN Thrown("RangeError")
  ELSE
  LET tag == schemaGet(readVint(buf, data, idLength, cursor)) IN
  IF tag = "undefined" THEN Thrown("unknown element")
  ELSE IF sizeAt >= data.byteLength THEN Thrown("RangeError")
  ELSE
  LET sizeLength == readVintLength(buf, data, sizeAt)
      payloadAt == sizeAt + sizeLength
  IN
  IF payloadAt > data.byteLength THEN Thrown("RangeError")
  ELSE
  LET value == readVintValue(buf, data, sizeLength, sizeAt)
      size == IF value = WideUndefined THEN -1 ELSE Saturated(value)
  IN
  \* length and size are saturated at Huge, for the comparisons with the
  \* buffer; exact is out.length as the number it is.
  [error |-> "none",
   tag |-> tag,
   tagBytes |-> [start |-> data.start + cursor, byteLength |-> idLength],
   sizeBytes |-> [start |-> data.start + sizeAt, byteLength |-> sizeLength],
   start |-> data.start + payloadAt,
   length |-> IF size < 0 THEN undefined ELSE size,
   size |-> size,
   exact |-> value]

(***************************************************************************)
(* Number -> bytes, as DataView's setters store them (big-endian).         *)
(***************************************************************************)
(* setUint32(offset, v): v modulo 2^32 in four bytes.                      *)
Uint32Bytes(v) ==
  << (v \div Pow2(24)) % 256, (v \div Pow2(16)) % 256, (v \div 256) % 256, v % 256 >>

(* A 16-bit store that saturates at the largest signed value.             *)
Int16Saturated(v) ==
  LET w == IF v > 32767 THEN 32767 ELSE v
  IN << (w \div 256) % 256, w % 256 >>

(* setInt16(offset, v, false): v modulo 2^16 in two bytes.                 *)
Int16Bytes(v) == << (v \div 256) % 256, v % 256 >>

(* Math.round(num / den) for num >= 0, den > 0: halves round up.  The      *)
(* quotient is a half-integer only when it is exactly representable, so    *)
(* the floating-point division does not change the rounded result.         *)
MathRound(num, den) == (2 * num + den) \div (2 * den)

(***************************************************************************)
(* IEEE 754 binary64 arithmetic on a mantissa of 53 bits (most significant *)
(* first) and an exponent, rounding to nearest, ties to even.              *)
(***************************************************************************)
MantissaBits == 53
ExponentBias == 1023

RECURSIVE Quot(_, _, _)
(* n further quotient bits of r / d, r < d.                                *)
Quot(r, d, n) ==
  IF n = 0 THEN <<>>
  ELSE LET bit == IF 2 * r >= d THEN 1 ELSE 0
       IN <<bit>> \o Quot(2 * r - bit * d, d, n - 1)

RECURSIVE Rem(_, _, _)
(* The remainder left after those n bits.                                  *)
Rem(r, d, n) ==
  IF n = 0 THEN r
  ELSE Rem(2 * r - (IF 2 * r >= d THEN d ELSE 0), d, n - 1)

RECURSIVE IncBits(_)
(* bits + 1; all ones wrap to all zeros.                                   *)
IncBits(bits) ==
  IF bits = <<>> THEN <<>>
  ELSE LET front == SubSeq(bits, 1, Len(bits) - 1)
       IN IF bits[Len(bits)] = 0 THEN front \o <<1>> ELSE IncBits(front) \o <<0>>

(* Round a mantissa given the first dropped bit and whether any later      *)
(* dropped bit is set.                                                     *)
RoundNearestEven(exp, mant, roundBit, sticky) ==
  IF roundBit = 1 /\ (sticky \/ mant[Len(mant)] = 1)
  THEN IF \A i \in 1..Len(mant) : mant[i] = 1
       THEN [zero |-> FALSE, exp |-> exp + 1,
             mant |-> [i \in 1..Len(mant) |-> IF i = 1 THEN 1 ELSE 0]]
       ELSE [zero |-> FALSE, exp |-> exp, mant |-> IncBits(mant)]
  ELSE [zero |-> FALSE, exp |-> exp, mant |-> mant]

FloatZero == [zero |-> TRUE, exp |-> 0, mant |-> <<>>]

RECURSIVE NormUp(_, _, _)
NormUp(n, d, e) == IF 2 * d <= n THEN NormUp(n, 2 * d, e + 1) ELSE <<n, d, e>>

RECURSIVE NormDown(_, _, _)
NormDown(n, d, e) == IF n < d THEN NormDown(2 * n, d, e - 1) ELSE <<n, d, e>>

(* The double n / d of two integers n >= 0, d > 0.                         *)
FloatDiv(n, d) ==
  IF n = 0 THEN FloatZero
  ELSE LET norm == IF n >= d THEN NormUp(n, d, 0) ELSE NormDown(n, d, 0)
           nn == norm[1]
           dd == norm[2]
           mant == <<1>> \o Quot(nn - dd, dd, MantissaBits - 1)
           r == Rem(nn - dd, dd, MantissaBits - 1)
           roundBit == IF 2 * r >= dd THEN 1 ELSE 0
       IN RoundNearestEven(norm[3], mant, roundBit, 2 * r - roundBit * dd > 0)

RECURSIVE MulRev(_, _, _)
(* bits (least significant first) times the small integer m, plus carry.   *)
MulRev(rev, m, carry) ==
  IF rev = <<>>
  THEN IF carry = 0 THEN <<>> ELSE <<carry % 2>> \o MulRev(rev, m, carry \div 2)
  ELSE LET t == Head(rev) * m + carry
       IN <<t % 2>> \o MulRev(Tail(rev), m, t \div 2)

Reverse(s) == [i \in 1..Len(s) |-> s[Len(s) + 1 - i]]

(* The double x * 1000 = (x * 125) * 2^3.                                  *)
FloatTimes1000(x) ==
  IF x.zero THEN FloatZero
  ELSE LET prod == Reverse(MulRev(Reverse(x.mant), 125, 0))
           extra == Len(prod) - MantissaBits
       IN RoundNearestEven(x.exp + extra + 3,
                           SubSeq(prod, 1, MantissaBits),
                           prod[MantissaBits + 1],
                           \E i \in (MantissaBits + 2)..Len(prod) : prod[i] = 1)

RECURSIVE BitsOf(_, _)
(* v in n bits, most significant first.                                    *)
BitsOf(v, n) == IF n = 0 THEN <<>> ELSE BitsOf(v \div 2, n - 1) \o <<v % 2>>

RECURSIVE BitsValue(_)
BitsValue(bits) ==
  IF bits = <<>> THEN 0
  ELSE 2 * BitsValue(SubSeq(bits, 1, Len(bits) - 1)) + bits[Len(bits)]

(* setFloat64(0, x): sign, 11 exponent bits, 52 fraction bits.             *)
Float64Bytes(x) ==
  IF x.zero THEN [i \in 1..8 |-> 0]
  ELSE LET bits == <<0>> \o BitsOf(x.exp + ExponentBias, 11)
                        \o SubSeq(x.mant, 2, MantissaBits)
       IN [i \in 1..8 |-> BitsValue(SubSeq(bits, 8 * i - 7, 8 * i))]

(* const duration = (numFrames / fps) * 1000, as stored by setFloat64.     *)
DurationBytes(frames, rate) == Float64Bytes(FloatTimes1000(FloatDiv(frames, rate)))

(***************************************************************************)
(* The state of recordCanvas around its call of fixFPS, and of fixFPS.     *)
(***************************************************************************)
VARIABLES
  input,             \* the bytes the buffer held when fixFPS was called (in
                     \* recordCanvas the bytes of new Blob(chunks), which stay as captured)
  buffer,            \* the ArrayBuffer handed to fixFPS; the handlers write into it
  fps,               \* <<numerator, denominator>> of the frame rate
  numFrames,         \* the frame count handed to fixFPS
  chunks,            \* fixFPS's chunk list
  frameIndex,        \* fixFPS's frameIndex
  clusterFrameIndex, \* fixFPS's clusterFrameIndex
  timecodeScaleSize, \* fixFPS's timecodeScaleSize
  stack,             \* the active parse() calls, innermost last
  pc,                \* "running", "returned" or "thrown"
  error,             \* the error thrown, or "none"
  call,              \* 1 for the first call of fixFPS, 2 for a second one
  first              \* what the first call returned, kept across a second call

(* recordCanvas: its locals, the MediaRecorder and the callback it drives.   *)
VARIABLES
  rpc,               \* where recordCanvas stands: the await it is suspended at
  recorderChunks,    \* recordCanvas's chunks: the Blobs of the dataavailable events
  last,              \* let last
  firstFrame,        \* let first
  dataAvailable,     \* whether the current dataAvailablePromise is resolved
  recorder,          \* the MediaRecorder's state
  media,             \* the bytes the recorder has encoded and not yet delivered
  delivered,         \* the payloads of the dataavailable events so far
  renders,           \* how many times renderNextFrame has been invoked
  lastAt,            \* the invocation at which renderNextFrame returns true
  result             \* the bytes of the Blob recordCanvas resolved with

rec == <<rpc, recorderChunks, last, firstFrame, dataAvailable, recorder, media,
         delivered, renders, lastAt, result>>

vars == <<input, buffer, fps, numFrames, chunks, frameIndex, clusterFrameIndex,
          timecodeScaleSize, stack, pc, error, call, first, rec>>

(* The module-level byte arrays.                                           *)
UNKNOWN_SIZE == <<1, 255, 255, 255, 255, 255, 255, 255>>
INT32_SIZE == <<132>>

(* A chunk is a DataView over the buffer (view = TRUE) or a fresh array.   *)
(* tag and part record which element and which push produced it.           *)
ViewChunk(tag, part, data) ==
  [tag |-> tag, part |-> part, view |-> TRUE,
   start |-> data.start, len |-> data.byteLength, bytes |-> <<>>]

NewChunk(tag, part, bytes) ==
  [tag |-> tag, part |-> part, view |-> FALSE, start |-> 0, len |-> 0, bytes |-> bytes]

(* The bytes a chunk holds, given the buffer's current content.            *)
ChunkBytes(c, buf) ==
  IF c.view THEN SubSeq(buf, c.start + 1, c.start + c.len) ELSE c.bytes

(* new Blob(chunks): the chunks' bytes, concatenated in order.             *)
BlobOf(chs, buf) == Flatten([i \in 1..Len(chs) |-> ChunkBytes(chs[i], buf)])

(***************************************************************************)
(* parse(start, length) and the generator it drives.                       *)
(***************************************************************************)
TopEl ==
  [error |-> "none", tag |-> "undefined", tagBytes |-> NoView, sizeBytes |-> NoView,
   start |-> 0, length |-> undefined, size |-> -1, exact |-> WideUndefined]

(* A running parse(): the reader's view and cursor (saturated at Huge: it  *)
(* is only compared with data.byteLength), whether the generator has       *)
(* returned, the handler that called it with its element, and the index    *)
(* in chunks of that handler's infoSizeBytes.                              *)
Frame(data, handler, el, sizeChunk) ==
  [data |-> data, cursor |-> 0, done |-> FALSE,
   handler |-> handler, el |-> el, sizeChunk |-> sizeChunk]

Top == stack[Len(stack)]

(* while (cursor < data.byteLength) is over, or the generator returned.    *)
AtEnd(f) == f.done \/ f.cursor >= f.data.byteLength

(* The element the reader yields next.                                     *)
Cur == readEBMLStep(buffer, Top.data, Top.cursor)

(* A reader that goes on inside the payload of the element it yielded,     *)
(* whatever its size.                                                      *)
ResumeIntoPayload(f, el) == [f EXCEPT !.cursor = el.start - f.data.start]

(* The reader after it yielded el: cursor stands behind el's size field;   *)
(* if (size < 0) return; cursor += size.                                   *)
Resume(f, el) ==
  LET cursor == el.start - f.data.start
  IN IF el.size < 0 THEN [f EXCEPT !.done = TRUE]
     ELSE [f EXCEPT !.cursor = IF cursor + el.size >= Huge THEN Huge
                               ELSE cursor + el.size]

ResumeTop(el) == [stack EXCEPT ![Len(stack)] = Resume(@, el)]

(* The callee returned: drop its frame and resume the caller's reader.     *)
PopAndResume ==
  LET rest == SubSeq(stack, 1, Len(stack) - 1)
  IN [rest EXCEPT ![Len(rest)] = Resume(@, Top.el)]

Handled == {"Info", "Segment", "Cluster", "TimecodeScale", "Duration", "Timecode",
            "SimpleBlock"}

Yields(tag) == pc = "running" /\ ~AtEnd(Top) /\ Cur.error = "none" /\ Cur.tag = tag

Throw(e) ==
  /\ pc' = "thrown"
  /\ error' = e
  /\ stack' = <<>>

(* A handler that calls parse(el.start, el.length): readEBML's DataView is *)
(* built when the loop first asks the reader for an element.               *)
EnterParse(handler, el, pushed, sizeChunk) ==
  /\ chunks' = pushed
  /\ IF ViewFits(buffer, el.start, el.length)
     THEN /\ stack' = Append(stack,
                 Frame(NewDataView(buffer, el.start, el.length), handler, el, sizeChunk))
          /\ UNCHANGED <<pc, error>>
     ELSE Throw("RangeError")

(***************************************************************************)
(* The handlers of elementHandlers, each with the reader step that yields  *)
(* its element.                                                            *)
(***************************************************************************)
(* The reader's error ends the walk and the chunks pushed so far are       *)
(* returned.                                                               *)
ReaderGivesUp ==
  /\ pc = "running" /\ ~AtEnd(Top) /\ Cur.error # "none"
  /\ pc' = "returned"
  /\ stack' = <<>>
  /\ first' = IF call = 1
              THEN [chunks |-> chunks, out |-> BlobOf(chunks, buffer), shared |-> FALSE]
              ELSE first
  /\ UNCHANGED <<input, buffer, fps, numFrames, chunks, frameIndex, clusterFrameIndex,
                 timecodeScaleSize, error, call>>
  /\ UNCHANGED rec

(* readEBML throws: an unknown identifier or a read outside its view.      *)
ReaderThrows ==
  /\ pc = "running" /\ ~AtEnd(Top) /\ Cur.error # "none"
  /\ Throw(Cur.error)
  /\ UNCHANGED <<input, buffer, fps, numFrames, chunks, frameIndex, clusterFrameIndex,
                 timecodeScaleSize, call, first>>
  /\ UNCHANGED rec

InfoSizeInit == <<8, 0, 0, 0, 0>>

Info ==
  /\ Yields("Info")
  /\ EnterParse("Info", Cur,
                chunks \o << ViewChunk("Info", "tagBytes", Cur.tagBytes),
                             NewChunk("Info", "sizeBytes", InfoSizeInit) >>,
                Len(chunks) + 2)
  /\ UNCHANGED <<input, buffer, fps, numFrames, frameIndex, clusterFrameIndex,
                 timecodeScaleSize, call, first>>
  /\ UNCHANGED rec

(* setUint32(offset, v) for a pair below 2^32.                             *)
Uint32BytesWide(w) ==
  << w[1] * 64 + w[2] \div Pow2(24), (w[2] \div Pow2(16)) % 256,
     (w[2] \div 256) % 256, w[2] % 256 >>

(* infoSize without the bytes of the added Duration.                       *)
InfoSizeValueNoDuration(length, scaleSize) ==
  IF length = undefined \/ scaleSize = WideUndefined THEN Wide(0)
  ELSE WideSub32(length + 4, scaleSize)

(* infoSize = el.length + (4 - timecodeScaleSize) + (3 + 8) as setUint32   *)
(* stores it: modulo 2^32; NaN (an undefined operand) stores 0.            *)
InfoSizeValue(length, scaleSize) ==
  IF length = undefined \/ scaleSize = WideUndefined THEN Wide(0)
  ELSE WideSub32(length + 4 + (3 + 8), scaleSize)

DurationHeader == <<68, 137, 136>>

(* The rest of the Info handler, after parse() returned.                   *)
InfoTail ==
  /\ pc = "running" /\ AtEnd(Top) /\ Top.handler = "Info"
  /\ chunks' =
       [ chunks \o << NewChunk("Duration", "header", DurationHeader),
                      NewChunk("Duration", "data", DurationBytes(numFrames * fps[2], fps[1])) >>
         EXCEPT ![Top.sizeChunk].bytes =
           <<8>> \o Uint32BytesWide(InfoSizeValue(Top.el.length, timecodeScaleSize)) ]
  /\ stack' = PopAndResume
  /\ UNCHANGED <<input, buffer, fps, numFrames, frameIndex, clusterFrameIndex,
                 timecodeScaleSize, pc, error, call, first>>
  /\ UNCHANGED rec

(* Segment emitted with the size bytes of the input.                      *)
SegmentKeepsSize ==
  /\ Yields("Segment")
  /\ EnterParse("Segment", Cur,
                chunks \o << ViewChunk("Segment", "tagBytes", Cur.tagBytes),
                             ViewChunk("Segment", "sizeBytes", Cur.sizeBytes) >>,
                0)
  /\ UNCHANGED <<input, buffer, fps, numFrames, frameIndex, clusterFrameIndex,
                 timecodeScaleSize, call, first>>
  /\ UNCHANGED rec

Segment ==
  /\ Yields("Segment")
  /\ EnterParse("Segment", Cur,
                chunks \o << ViewChunk("Segment", "tagBytes", Cur.tagBytes),
                             NewChunk("Segment", "sizeBytes", UNKNOWN_SIZE) >>,
                0)
  /\ UNCHANGED <<input, buffer, fps, numFrames, frameIndex, clusterFrameIndex,
                 timecodeScaleSize, call, first>>
  /\ UNCHANGED rec

(* Cluster resetting both counters.                                        *)
ClusterResetsBoth ==
  /\ Yields("Cluster")
  /\ frameIndex' = 0
  /\ clusterFrameIndex' = 0
  /\ EnterParse("Cluster", Cur,
                chunks \o << ViewChunk("Cluster", "tagBytes", Cur.tagBytes),
                             NewChunk("Cluster", "sizeBytes", UNKNOWN_SIZE) >>,
                0)
  /\ UNCHANGED <<input, buffer, fps, numFrames, timecodeScaleSize, call, first>>
  /\ UNCHANGED rec

(* Cluster without frameIndex = 0.                                         *)
ClusterKeepsFrameIndex ==
  /\ Yields("Cluster")
  /\ EnterParse("Cluster", Cur,
                chunks \o << ViewChunk("Cluster", "tagBytes", Cur.tagBytes),
                             NewChunk("Cluster", "sizeBytes", UNKNOWN_SIZE) >>,
                0)
  /\ UNCHANGED <<input, buffer, fps, numFrames, frameIndex, clusterFrameIndex,
                 timecodeScaleSize, call, first>>
  /\ UNCHANGED rec

Cluster ==
  /\ Yields("Cluster")
  /\ frameIndex' = 0
  /\ EnterParse("Cluster", Cur,
                chunks \o << ViewChunk("Cluster", "tagBytes", Cur.tagBytes),
                             NewChunk("Cluster", "sizeBytes", UNKNOWN_SIZE) >>,
                0)
  /\ UNCHANGED <<input, buffer, fps, numFrames, clusterFrameIndex,
                 timecodeScaleSize, call, first>>
  /\ UNCHANGED rec

(* parse() returned to the Segment or Cluster handler, which returns.      *)
ContainerReturn ==
  /\ pc = "running" /\ AtEnd(Top) /\ Top.handler \in {"Segment", "Cluster"}
  /\ stack' = PopAndResume
  /\ UNCHANGED <<input, buffer, fps, numFrames, chunks, frameIndex, clusterFrameIndex,
                 timecodeScaleSize, pc, error, call, first>>
  /\ UNCHANGED rec

TimecodeScaleValue == 1000000

(* TimecodeScale pushing the source's size bytes in place of INT32_SIZE.   *)
TimecodeScaleKeepsSize ==
  /\ Yields("TimecodeScale")
  /\ timecodeScaleSize' = Cur.exact
  /\ chunks' = chunks \o << ViewChunk("TimecodeScale", "tagBytes", Cur.tagBytes),
                            ViewChunk("TimecodeScale", "sizeBytes", Cur.sizeBytes),
                            NewChunk("TimecodeScale", "data", Uint32Bytes(1000000)) >>
  /\ stack' = ResumeTop(Cur)
  /\ UNCHANGED <<input, buffer, fps, numFrames, frameIndex, clusterFrameIndex,
                 pc, error, call, first>>
  /\ UNCHANGED rec

TimecodeScale ==
  /\ Yields("TimecodeScale")
  /\ timecodeScaleSize' = Cur.exact
  /\ chunks' = chunks \o << ViewChunk("TimecodeScale", "tagBytes", Cur.tagBytes),
                            NewChunk("TimecodeScale", "sizeBytes", INT32_SIZE),
                            NewChunk("TimecodeScale", "data", Uint32Bytes(TimecodeScaleValue)) >>
  /\ stack' = ResumeTop(Cur)
  /\ UNCHANGED <<input, buffer, fps, numFrames, frameIndex, clusterFrameIndex,
                 pc, error, call, first>>
  /\ UNCHANGED rec

(* Duration passed through like an element without a handler.             *)
DurationKept ==
  /\ Yields("Duration")
  /\ chunks' = chunks \o
       << ViewChunk("Duration", "tagBytes", Cur.tagBytes),
          ViewChunk("Duration", "sizeBytes", Cur.sizeBytes),
          ViewChunk("Duration", "data", [start |-> Cur.start, byteLength |-> 0]) >>
  /\ stack' = ResumeTop(Cur)
  /\ UNCHANGED <<input, buffer, fps, numFrames, frameIndex, clusterFrameIndex,
                 timecodeScaleSize, pc, error, call, first>>
  /\ UNCHANGED rec

Duration ==
  /\ Yields("Duration")
  /\ stack' = ResumeTop(Cur)
  /\ UNCHANGED <<input, buffer, fps, numFrames, chunks, frameIndex, clusterFrameIndex,
                 timecodeScaleSize, pc, error, call, first>>
  /\ UNCHANGED rec

(* Math.round((index * 1000) / fps)                                        *)
FrameTime(index, rate) == MathRound(index * 1000 * rate[2], rate[1])

TimecodeBytes(index, rate) == Uint32Bytes(FrameTime(index, rate))

(* Timecode computed from frameIndex, the counter Cluster resets.          *)
TimecodeOfFrameIndex ==
  /\ Yields("Timecode")
  /\ chunks' = chunks \o << ViewChunk("Timecode", "tagBytes", Cur.tagBytes),
                            NewChunk("Timecode", "sizeBytes", INT32_SIZE),
                            NewChunk("Timecode", "data", TimecodeBytes(frameIndex, fps)) >>
  /\ stack' = ResumeTop(Cur)
  /\ UNCHANGED <<input, buffer, fps, numFrames, frameIndex, clusterFrameIndex,
                 timecodeScaleSize, pc, error, call, first>>
  /\ UNCHANGED rec

Timecode ==
  /\ Yields("Timecode")
  /\ chunks' = chunks \o << ViewChunk("Timecode", "tagBytes", Cur.tagBytes),
                            NewChunk("Timecode", "sizeBytes", INT32_SIZE),
                            NewChunk("Timecode", "data",
                                     TimecodeBytes(clusterFrameIndex, fps)) >>
  /\ stack' = ResumeTop(Cur)
  /\ UNCHANGED <<input, buffer, fps, numFrames, frameIndex, clusterFrameIndex,
                 timecodeScaleSize, pc, error, call, first>>
  /\ UNCHANGED rec

(* data.setInt16(1, Math.round((frameIndex * 1000) / fps), false) on the   *)
(* view that starts at offset `start` of the buffer.                       *)
BlockTimecodeBytes(index, rate) == Int16Bytes(FrameTime(index, rate))

(* setInt16(0, ...): the timecode written over the track number.           *)
SetBlockTimecodeAtZero(buf, start, index, rate) ==
  LET bytes == BlockTimecodeBytes(index, rate)
  IN [buf EXCEPT ![start + 1] = bytes[1], ![start + 2] = bytes[2]]

(* setInt32(1, ...): four bytes written where two are meant.               *)
SetBlockTimecodeWide(buf, start, index, rate) ==
  LET bytes == Uint32Bytes(FrameTime(index, rate))
  IN [p \in 1..Len(buf) |->
        IF p \in (start + 2)..(start + 5) THEN bytes[p - start - 1] ELSE buf[p]]

SetBlockTimecode(buf, start, index, rate) ==
  LET bytes == BlockTimecodeBytes(index, rate)
  IN [buf EXCEPT ![start + 2] = bytes[1], ![start + 3] = bytes[2]]

SimpleBlock ==
  /\ Yields("SimpleBlock")
  /\ IF ViewFits(buffer, Cur.start, Cur.length)
        /\ NewDataView(buffer, Cur.start, Cur.length).byteLength >= 3
     THEN /\ buffer' = SetBlockTimecode(buffer, Cur.start, frameIndex, fps)
          /\ frameIndex' = frameIndex + 1
          /\ clusterFrameIndex' = clusterFrameIndex + 1
          /\ chunks' = chunks \o
               << ViewChunk("SimpleBlock", "tagBytes", Cur.tagBytes),
                  ViewChunk("SimpleBlock", "sizeBytes", Cur.sizeBytes),
                  ViewChunk("SimpleBlock", "data",
                            NewDataView(buffer, Cur.start, Cur.length)) >>
          /\ stack' = ResumeTop(Cur)
          /\ UNCHANGED <<pc, error>>
     ELSE /\ Throw("RangeError")
          /\ UNCHANGED <<buffer, frameIndex, clusterFrameIndex, chunks>>
  /\ UNCHANGED <<input, fps, numFrames, timecodeScaleSize, call, first>>
  /\ UNCHANGED rec

(* The else branch of parse with the EBML header treated as Segment is:    *)
(* unknown size pushed, children read.                                     *)
PassThroughRecursesHeader ==
  /\ pc = "running" /\ ~AtEnd(Top) /\ Cur.error = "none" /\ Cur.tag \notin Handled
  /\ IF Cur.tag = "EBML"
     THEN EnterParse("Segment", Cur,
                     chunks \o << ViewChunk("EBML", "tagBytes", Cur.tagBytes),
                                  NewChunk("EBML", "sizeBytes", UNKNOWN_SIZE) >>,
                     0)
     ELSE IF ViewFits(buffer, Cur.start, Cur.length)
     THEN /\ chunks' = chunks \o
               << ViewChunk(Cur.tag, "tagBytes", Cur.tagBytes),
                  ViewChunk(Cur.tag, "sizeBytes", Cur.sizeBytes),
                  ViewChunk(Cur.tag, "data", NewDataView(buffer, Cur.start, Cur.length)) >>
          /\ stack' = ResumeTop(Cur)
          /\ UNCHANGED <<pc, error>>
     ELSE /\ Throw("RangeError")
          /\ UNCHANGED chunks
  /\ UNCHANGED <<input, buffer, fps, numFrames, frameIndex, clusterFrameIndex,
                 timecodeScaleSize, call, first>>
  /\ UNCHANGED rec

(* The else branch of parse without the push of el.sizeBytes.              *)
PassThroughDropsSize ==
  /\ pc = "running" /\ ~AtEnd(Top) /\ Cur.error = "none" /\ Cur.tag \notin Handled
  /\ IF ViewFits(buffer, Cur.start, Cur.length)
     THEN /\ chunks' = chunks \o
               << ViewChunk(Cur.tag, "tagBytes", Cur.tagBytes),
                  ViewChunk(Cur.tag, "data", NewDataView(buffer, Cur.start, Cur.length)) >>
          /\ stack' = ResumeTop(Cur)
          /\ UNCHANGED <<pc, error>>
     ELSE /\ Throw("RangeError")
          /\ UNCHANGED chunks
  /\ UNCHANGED <<input, buffer, fps, numFrames, frameIndex, clusterFrameIndex,
                 timecodeScaleSize, call, first>>
  /\ UNCHANGED rec

(* The else branch of parse: no handler for the tag.                       *)
PassThrough ==
  /\ pc = "running" /\ ~AtEnd(Top) /\ Cur.error = "none" /\ Cur.tag \notin Handled
  /\ IF ViewFits(buffer, Cur.start, Cur.length)
     THEN /\ chunks' = chunks \o
               << ViewChunk(Cur.tag, "tagBytes", Cur.tagBytes),
                  ViewChunk(Cur.tag, "sizeBytes", Cur.sizeBytes),
                  ViewChunk(Cur.tag, "data", NewDataView(buffer, Cur.start, Cur.length)) >>
          /\ stack' = ResumeTop(Cur)
          /\ UNCHANGED <<pc, error>>
     ELSE /\ Throw("RangeError")
          /\ UNCHANGED chunks
  /\ UNCHANGED <<input, buffer, fps, numFrames, frameIndex, clusterFrameIndex,
                 timecodeScaleSize, call, first>>
  /\ UNCHANGED rec

(* parse(0, buffer.byteLength) is over: return chunks.                     *)
Return ==
  /\ pc = "running" /\ AtEnd(Top) /\ Top.handler = "fixFPS"
  /\ pc' = "returned"
  /\ stack' = <<>>
  /\ first' = IF call = 1
              THEN [chunks |-> chunks, out |-> BlobOf(chunks, buffer), shared |-> FALSE]
              ELSE first
  /\ UNCHANGED <<input, buffer, fps, numFrames, chunks, frameIndex, clusterFrameIndex,
                 timecodeScaleSize, error, call>>
  /\ UNCHANGED rec

(***************************************************************************)
(* A second call of fixFPS after the first one returned.                   *)
(***************************************************************************)
NoFirst == [chunks |-> <<>>, out |-> <<>>, shared |-> FALSE]

(* The locals of a fresh fixFPS(buf, ...) and its parse(0, byteLength).    *)
Enter(buf) ==
  /\ chunks' = <<>>
  /\ frameIndex' = 0
  /\ clusterFrameIndex' = 0
  /\ timecodeScaleSize' = WideUndefined
  /\ stack' = << Frame(NewDataView(buf, 0, Len(buf)), "fixFPS", TopEl, 0) >>
  /\ pc' = "running"
  /\ error' = "none"

(* fixFPS on a new buffer holding the first output (new Blob(newChunks)    *)
(* read back), with the same fps and numFrames.                            *)
RunOnOutput ==
  /\ pc = "returned" /\ call = 1
  /\ call' = 2
  /\ buffer' = first.out
  /\ input' = first.out
  /\ Enter(first.out)
  /\ UNCHANGED <<fps, numFrames, first>>
  /\ UNCHANGED rec

(* The frame rates of the model: 60, 16 and 1/64 frames per second.        *)
FpsSet == { <<60, 1>>, <<16, 1>>, <<1, 64>> }

(* fixFPS on the same ArrayBuffer once more, with any frame rate; the      *)
(* first call's chunks still view that buffer.                             *)
RunOnSameBuffer ==
  /\ pc = "returned" /\ call = 1
  /\ call' = 2
  /\ \E rate \in FpsSet : fps' = rate
  /\ input' = buffer
  /\ first' = [first EXCEPT !.shared = TRUE]
  /\ Enter(buffer)
  /\ UNCHANGED <<buffer, numFrames>>
  /\ UNCHANGED rec

(* What the chunks returned by the first call hold now.                    *)
FirstChunksNow ==
  IF first.shared THEN BlobOf(first.chunks, buffer) ELSE first.out

(***************************************************************************)
(* The input buffers of the model: WebM files as a MediaRecorder writes    *)
(* them (an EBML header, then a Segment holding Info, Tracks and           *)
(* Clusters of SimpleBlocks), in every shape the bounds below allow, and   *)
(* a few files that are malformed.                                         *)
(***************************************************************************)
MaxClusters == 2      \* clusters per file
MaxBlocks == 2        \* SimpleBlocks per cluster
MaxScaleWidth == 8    \* bytes of the source TimecodeScale payload
MaxSizeWidth == 2     \* bytes of the source TimecodeScale size field

IdEBML == <<26, 69, 223, 163>>
IdDocType == <<66, 130>>
IdVoid == <<236>>
IdSegment == <<24, 83, 128, 103>>
IdInfo == <<21, 73, 169, 102>>
IdMuxingApp == <<77, 128>>
IdWritingApp == <<87, 65>>
IdTimecodeScale == <<42, 215, 177>>
IdDuration == <<68, 137>>
IdTracks == <<22, 84, 174, 107>>
IdCluster == <<31, 67, 182, 117>>
IdTimecode == <<231>>
IdSimpleBlock == <<163>>

(* The size n as a VINT of w bytes: the marker bit, then n.                *)
SizeField(n, w) ==
  [i \in 1..w |-> ((IF i = 1 THEN Pow2(8 - w) ELSE 0) + n \div Pow2(8 * (w - i))) % 256]

Elem(id, sizeWidth, payload) == id \o SizeField(Len(payload), sizeWidth) \o payload

ElemUnknownSize(id, payload) == id \o UNKNOWN_SIZE \o payload

Header == Elem(IdEBML, 1, Elem(IdDocType, 1, <<119, 101, 98, 109>>))

Tracks == Elem(IdTracks, 1, <<174, 129, 215>>)

(* A TimecodeScale of w payload bytes (the low bytes of 1000000) behind a  *)
(* size field of sf bytes; nothing when w = 0.                             *)
ScaleElem(w, sf) ==
  IF w = 0 THEN <<>>
  ELSE IdTimecodeScale \o SizeField(w, sf)
         \o [i \in 1..w |-> IF i = w THEN 64 ELSE IF i = w - 1 THEN 66
                            ELSE IF i = w - 2 THEN 15 ELSE 0]

(* A Duration of d payload bytes (a float of 4 or 8 bytes); nothing when   *)
(* d = 0.                                                                  *)
DurationElem(d) ==
  IF d = 0 THEN <<>> ELSE Elem(IdDuration, 1, [i \in 1..d |-> IF i = 1 THEN 69 ELSE 16 + i])

InfoElem(w, sf, d) ==
  Elem(IdInfo, 1,
       Elem(IdMuxingApp, 1, <<97, 98>>) \o ScaleElem(w, sf) \o DurationElem(d)
         \o Elem(IdWritingApp, 1, <<120>>))

(* The k-th SimpleBlock of the file: track number, a recorded (jittery)    *)
(* relative timecode, flags and one byte of frame data.                    *)
BlockElem(k) == Elem(IdSimpleBlock, 1, <<129, 200 + k, 7 * k + 3, 128, 10 + k>>)

RECURSIVE Blocks(_, _)
Blocks(from, n) == IF n = 0 THEN <<>> ELSE BlockElem(from) \o Blocks(from + 1, n - 1)

(* A cluster with a recorded Timecode and n blocks, of known or of         *)
(* unknown size.                                                           *)
ClusterElem(from, n, known) ==
  LET body == Elem(IdTimecode, 1, <<40 + from>>) \o Blocks(from, n)
  IN IF known THEN Elem(IdCluster, 1, body) ELSE ElemUnknownSize(IdCluster, body)

RECURSIVE Clusters(_, _, _)
(* counts: the number of blocks of each cluster.                           *)
Clusters(from, counts, known) ==
  IF counts = <<>> THEN <<>>
  ELSE ClusterElem(from, Head(counts), known)
         \o Clusters(from + Head(counts), Tail(counts), known)

SegmentElem(body, known) ==
  IF known THEN Elem(IdSegment, 2, body) ELSE ElemUnknownSize(IdSegment, body)

File(w, sf, d, counts, clustersKnown, segmentKnown) ==
  Header \o SegmentElem(InfoElem(w, sf, d) \o Tracks \o Clusters(0, counts, clustersKnown),
                        segmentKnown)

ClusterCounts == UNION { [1..k -> 0..MaxBlocks] : k \in 0..MaxClusters }

(* Every Info content, before one cluster of one block.                    *)
InfoFiles ==
  { File(w, sf, d, <<1>>, known, known) :
      w \in 1..MaxScaleWidth, sf \in 1..MaxSizeWidth, d \in {0, 4, 8}, known \in BOOLEAN }
  \cup { File(0, 1, d, <<1>>, known, known) : d \in {0, 4, 8}, known \in BOOLEAN }

(* Every split of the frames over clusters, after the Info a recorder      *)
(* writes (a TimecodeScale of 3 bytes, no Duration).                       *)
ClusterFiles ==
  { File(3, 1, 0, counts, clustersKnown, segmentKnown) :
      counts \in ClusterCounts, clustersKnown \in BOOLEAN, segmentKnown \in BOOLEAN }

(* The example of the documentation: two clusters of five frames.          *)
ExampleFile == File(3, 1, 0, <<5, 5>>, TRUE, TRUE)

(* Files without any element that has a handler.                           *)
PlainFiles ==
  { Header,
    Header \o Elem(IdVoid, 1, <<0, 0>>) \o Tracks,
    Header \o ElemUnknownSize(IdTracks, <<174, 129, 215>>) }

(* Files fixFPS fails on.                                                  *)
BrokenFiles ==
  { Header \o <<129, 128>>,                                    \* unknown identifier
    Header \o SegmentElem(Tracks \o <<129, 128>>, TRUE),       \* the same, nested
    Header \o SegmentElem(ClusterElem(0, 1, TRUE)
                            \o Elem(IdCluster, 1, Elem(IdSimpleBlock, 1, <<129, 0>>)),
                          TRUE),                               \* a SimpleBlock of 2 bytes
    Header \o IdTracks \o <<133, 1, 2>>,                       \* truncated payload
    Header \o IdSegment \o <<144>>,                            \* Segment size beyond the end
    Header \o <<236>>,                                         \* no size field
    Header \o IdTracks \o <<255>> \o <<174, 129, 215>> }       \* the 1-byte size 0xFF

(* Files that are not what a recorder writes, and are processed.           *)
OddFiles ==
  { \* two Info elements, the second without a TimecodeScale
    Header \o SegmentElem(InfoElem(3, 1, 0) \o InfoElem(0, 1, 0) \o ClusterElem(0, 1, TRUE),
                          TRUE),
    \* a SimpleBlock and a Timecode outside any cluster
    Header \o SegmentElem(BlockElem(0) \o Elem(IdTimecode, 1, <<9>>)
                            \o ClusterElem(1, 2, TRUE), TRUE),
    \* an Info of unknown size
    Header \o SegmentElem(ElemUnknownSize(IdInfo, ScaleElem(3, 1)), TRUE),
    \* a SimpleBlock of unknown size ends its cluster
    Header \o SegmentElem(Elem(IdCluster, 1, ElemUnknownSize(IdSimpleBlock, <<129, 1, 2, 128>>))
                            \o ClusterElem(1, 1, TRUE), TRUE),
    \* an unknown-size Tracks closes a Segment of known size; a cluster follows
    Header \o SegmentElem(InfoElem(3, 1, 0) \o ElemUnknownSize(IdTracks, <<174, 129, 215>>),
                          TRUE)
           \o ClusterElem(0, 2, TRUE),
    \* an unknown-size Cluster closes a Segment of known size; blocks follow
    Header \o SegmentElem(ClusterElem(0, 1, FALSE), TRUE)
           \o BlockElem(1) \o BlockElem(2),
    \* a Tracks that declares 8 bytes where its Segment has 2 left
    Header \o SegmentElem(IdTracks \o SizeField(8, 1) \o <<174, 129>>, TRUE)
           \o Elem(IdVoid, 1, <<0, 0, 0, 0>>) \o ClusterElem(0, 1, TRUE),
    \* a Timecode that declares 9 bytes where its Cluster has 1 left
    Header \o SegmentElem(Elem(IdCluster, 1, IdTimecode \o SizeField(9, 1) \o <<5>>)
                            \o ClusterElem(0, 1, TRUE), TRUE),
    \* an identifier behind eight zero bytes
    Header \o <<0, 0, 0, 0, 0, 0, 0, 0>> \o Elem(IdVoid, 1, <<7>>) \o Tracks,
    \* a size field of eight zero bytes and one byte
    Header \o IdVoid \o <<0, 0, 0, 0, 0, 0, 0, 0, 2>> \o <<1, 2>> \o Tracks,
    \* the 1-byte size 0xFF on a Segment with 127 bytes and more behind it
    Header \o IdSegment \o <<255>> \o Elem(IdVoid, 1, [i \in 1..125 |-> 0])
           \o ClusterElem(0, 1, TRUE),
    \* a TimecodeScale that declares 2^31 bytes, the last child of its Info
    Header \o SegmentElem(Elem(IdInfo, 1, Elem(IdMuxingApp, 1, <<97, 98>>)
                                            \o IdTimecodeScale \o <<8, 128, 0, 0, 0>>
                                            \o <<0, 15, 66, 64>>), TRUE),
    \* a TimecodeScale that declares 2^32 + 5 bytes, and a cluster behind the Info
    Header \o SegmentElem(Elem(IdInfo, 1, IdTimecodeScale \o <<1, 0, 0, 1, 0, 0, 0, 5>>
                                            \o <<15, 66, 64>>)
                            \o ClusterElem(0, 1, TRUE), TRUE) }

FrameCounts == {7, 300}

Inputs ==
  { [bytes |-> b, fps |-> r, numFrames |-> n] :
      b \in InfoFiles \cup PlainFiles \cup BrokenFiles \cup OddFiles,
      r \in {<<60, 1>>}, n \in FrameCounts }
  \cup { [bytes |-> b, fps |-> r, numFrames |-> 300] :
           b \in ClusterFiles \cup {ExampleFile}, r \in FpsSet }

(* fixFPS called by itself: no recordCanvas around it.                     *)
NoRecording ==
  /\ rpc = "none"
  /\ recorderChunks = <<>>
  /\ last = FALSE
  /\ firstFrame = TRUE
  /\ dataAvailable = FALSE
  /\ recorder = "inactive"
  /\ media = <<>>
  /\ delivered = <<>>
  /\ renders = 0
  /\ lastAt = 0
  /\ result = <<>>

Init ==
  /\ \E in \in Inputs :
       /\ input = in.bytes
       /\ buffer = in.bytes
       /\ fps = in.fps
       /\ numFrames = in.numFrames
       /\ stack = << Frame(NewDataView(in.bytes, 0, Len(in.bytes)), "fixFPS", TopEl, 0) >>
  /\ chunks = <<>>
  /\ frameIndex = 0
  /\ clusterFrameIndex = 0
  /\ timecodeScaleSize = WideUndefined
  /\ pc = "running"
  /\ error = "none"
  /\ call = 1
  /\ first = NoFirst
  /\ NoRecording

Next ==
  \/ ReaderThrows
  \/ Info
  \/ InfoTail
  \/ Segment
  \/ Cluster
  \/ ContainerReturn
  \/ TimecodeScale
  \/ Duration
  \/ Timecode
  \/ SimpleBlock
  \/ PassThrough
  \/ Return
  \/ RunOnOutput
  \/ RunOnSameBuffer

Spec == Init /\ [][Next]_vars

(***************************************************************************)
(* recordCanvas, from recorder.start() on: the render loop, the events of  *)
(* the MediaRecorder, and the fixFPS call with its fallback.  fixFPS runs   *)
(* by the handler steps above.                                             *)
(***************************************************************************)
MaxEvents == 3        \* timeslice dataavailable events of one recording

(* The invocation at which the caller's renderNextFrame returns true.      *)
RenderCounts == {1, 7}

(* What the recorder encodes: files fixFPS rewrites, files it fails on     *)
(* (one of them after a SimpleBlock was rewritten), and nothing at all.    *)
RecordedFiles ==
  { ExampleFile, File(3, 1, 8, <<1>>, TRUE, TRUE), <<>> } \cup BrokenFiles

(* ondataavailable without the test of e.data.size.                        *)
OnDataAvailablePushesAll(payload) ==
  /\ recorderChunks' = Append(recorderChunks, payload)
  /\ dataAvailable' = TRUE
  /\ delivered' = Append(delivered, payload)

(* The recorder hands `payload` to ondataavailable: a Blob of size 0 is    *)
(* not pushed; the current dataAvailablePromise is resolved.               *)
OnDataAvailable(payload) ==
  /\ recorderChunks' = IF Len(payload) > 0 THEN Append(recorderChunks, payload)
                       ELSE recorderChunks
  /\ dataAvailable' = TRUE
  /\ delivered' = Append(delivered, payload)

fixFPSVars == <<input, buffer, chunks, frameIndex, clusterFrameIndex,
                timecodeScaleSize, stack, pc, error, call, first, fps>>

(* await new Promise(requestAnimationFrame) is over.                       *)
AnimationFrame ==
  /\ rpc = "raf"
  /\ rpc' = "loop"
  /\ UNCHANGED <<fixFPSVars, numFrames, recorderChunks, last, firstFrame, dataAvailable,
                 recorder, media, delivered, renders, lastAt, result>>

(* A turn of the loop that does not count its first frame.                 *)
RenderNextFrameCountsLate ==
  /\ rpc = "loop" /\ ~last
  /\ renders' = renders + 1
  /\ last' = (renders + 1 = lastAt)
  /\ numFrames' = IF firstFrame THEN numFrames ELSE numFrames + 1
  /\ firstFrame' = FALSE
  /\ rpc' = IF firstFrame THEN "firstDelay" ELSE "race"
  /\ UNCHANGED <<fixFPSVars, recorderChunks, dataAvailable, recorder, media, delivered,
                 lastAt, result>>

(* One turn of while (!last), up to its first await.                       *)
RenderNextFrame ==
  /\ rpc = "loop" /\ ~last
  /\ renders' = renders + 1
  /\ last' = (renders + 1 = lastAt)
  /\ numFrames' = numFrames + 1
  /\ firstFrame' = FALSE
  /\ rpc' = IF firstFrame THEN "firstDelay" ELSE "race"
  /\ UNCHANGED <<fixFPSVars, recorderChunks, dataAvailable, recorder, media, delivered,
                 lastAt, result>>

(* setTimeout(resolve, 1000) of the first turn.                            *)
FirstDelayElapsed ==
  /\ rpc = "firstDelay"
  /\ rpc' = "race"
  /\ UNCHANGED <<fixFPSVars, numFrames, recorderChunks, last, firstFrame, dataAvailable,
                 recorder, media, delivered, renders, lastAt, result>>

(* Promise.race settles by dataAvailablePromise; a new promise replaces    *)
(* it.                                                                     *)
RaceDataAvailable ==
  /\ rpc = "race" /\ dataAvailable
  /\ dataAvailable' = FALSE
  /\ rpc' = "loop"
  /\ UNCHANGED <<fixFPSVars, numFrames, recorderChunks, last, firstFrame,
                 recorder, media, delivered, renders, lastAt, result>>

(* A wait without the 500 ms timer: only dataAvailablePromise ends it.     *)
RaceWithoutTimer ==
  /\ rpc = "race" /\ dataAvailable
  /\ dataAvailable' = FALSE
  /\ rpc' = "loop"
  /\ UNCHANGED <<fixFPSVars, numFrames, recorderChunks, last, firstFrame,
                 recorder, media, delivered, renders, lastAt, result>>

(* Promise.race settles by setTimeout(resolve, 500).                       *)
RaceTimeout ==
  /\ rpc = "race"
  /\ dataAvailable' = FALSE
  /\ rpc' = "loop"
  /\ UNCHANGED <<fixFPSVars, numFrames, recorderChunks, last, firstFrame,
                 recorder, media, delivered, renders, lastAt, result>>

(* The loop is left; await setTimeout(resolve, 1000) starts.               *)
LoopExit ==
  /\ rpc = "loop" /\ last
  /\ rpc' = "finalDelay"
  /\ UNCHANGED <<fixFPSVars, numFrames, recorderChunks, last, firstFrame, dataAvailable,
                 recorder, media, delivered, renders, lastAt, result>>

(* The final delay is over: recorder.stop(); await recorderStop.           *)
RecorderStop ==
  /\ rpc = "finalDelay"
  /\ recorder' = "stopping"
  /\ rpc' = "awaitStop"
  /\ UNCHANGED <<fixFPSVars, numFrames, recorderChunks, last, firstFrame, dataAvailable,
                 media, delivered, renders, lastAt, result>>

(* A timeslice event of the running recorder: nothing, or the first half   *)
(* of what it has encoded.  Events are dispatched while recordCanvas is    *)
(* suspended at an await; from the end of a wait to the next await the     *)
(* loop runs without a break.                                              *)
DataAvailable ==
  /\ recorder = "recording"
  /\ rpc # "loop"
  /\ Len(delivered) < MaxEvents
  /\ \E n \in {0, (Len(media) + 1) \div 2} :
       /\ OnDataAvailable(SubSeq(media, 1, n))
       /\ media' = SubSeq(media, n + 1, Len(media))
  /\ UNCHANGED <<fixFPSVars, numFrames, rpc, last, firstFrame, recorder, renders, lastAt,
                 result>>

(* After stop(): the event that carries all data gathered since the last   *)
(* one.                                                                    *)
FinalData ==
  /\ recorder = "stopping"
  /\ OnDataAvailable(media)
  /\ media' = <<>>
  /\ recorder' = "flushed"
  /\ UNCHANGED <<fixFPSVars, numFrames, rpc, last, firstFrame, renders, lastAt, result>>

(* The stop event resolves recorderStop; readBlob(new Blob(chunks))        *)
(* starts.                                                                 *)
OnStop ==
  /\ recorder = "flushed" /\ rpc = "awaitStop"
  /\ recorder' = "inactive"
  /\ rpc' = "reading"
  /\ UNCHANGED <<fixFPSVars, numFrames, recorderChunks, last, firstFrame, dataAvailable,
                 media, delivered, renders, lastAt, result>>

(* reader.onload: the ArrayBuffer is a copy of the Blob's bytes; fixFPS    *)
(* is called on it.                                                        *)
ReadBlobLoads ==
  /\ rpc = "reading"
  /\ buffer' = Flatten(recorderChunks)
  /\ input' = Flatten(recorderChunks)
  /\ Enter(Flatten(recorderChunks))
  /\ rpc' = "fixing"
  /\ UNCHANGED <<call, first, fps, numFrames, recorderChunks, last, firstFrame,
                 dataAvailable, recorder, media, delivered, renders, lastAt, result>>

(* reader.onerror: readBlob rejects.                                       *)
ReadBlobFails ==
  /\ rpc = "reading"
  /\ rpc' = "caught"
  /\ UNCHANGED <<fixFPSVars, numFrames, recorderChunks, last, firstFrame, dataAvailable,
                 recorder, media, delivered, renders, lastAt, result>>

(* return new Blob(newChunks, ...).                                        *)
ReturnFixed ==
  /\ rpc = "fixing" /\ pc = "returned"
  /\ result' = BlobOf(chunks, buffer)
  /\ rpc' = "resolved"
  /\ UNCHANGED <<fixFPSVars, numFrames, recorderChunks, last, firstFrame, dataAvailable,
                 recorder, media, delivered, renders, lastAt>>

(* The fallback returns the ArrayBuffer fixFPS worked on.                  *)
CatchReturnsBuffer ==
  /\ (rpc = "fixing" /\ pc = "thrown") \/ rpc = "caught"
  /\ result' = buffer
  /\ rpc' = "resolved"
  /\ UNCHANGED <<fixFPSVars, numFrames, recorderChunks, last, firstFrame, dataAvailable,
                 recorder, media, delivered, renders, lastAt>>

(* catch (err): return new Blob(chunks, ...), the Blobs as captured.       *)
Catch ==
  /\ (rpc = "fixing" /\ pc = "thrown") \/ rpc = "caught"
  /\ result' = Flatten(recorderChunks)
  /\ rpc' = "resolved"
  /\ UNCHANGED <<fixFPSVars, numFrames, recorderChunks, last, firstFrame, dataAvailable,
                 recorder, media, delivered, renders, lastAt>>

RecordInit ==
  /\ rpc = "raf"
  /\ recorderChunks = <<>>
  /\ last = FALSE
  /\ firstFrame = TRUE
  /\ dataAvailable = FALSE
  /\ recorder = "recording"
  /\ media \in RecordedFiles
  /\ delivered = <<>>
  /\ renders = 0
  /\ lastAt \in RenderCounts
  /\ result = <<>>
  /\ numFrames = 0
  /\ fps = <<60, 1>>
  /\ input = <<>>
  /\ buffer = <<>>
  /\ chunks = <<>>
  /\ frameIndex = 0
  /\ clusterFrameIndex = 0
  /\ timecodeScaleSize = WideUndefined
  /\ stack = <<>>
  /\ pc = "idle"
  /\ error = "none"
  /\ call = 1
  /\ first = NoFirst

RecordNext ==
  \/ AnimationFrame
  \/ RenderNextFrame
  \/ FirstDelayElapsed
  \/ RaceDataAvailable
  \/ RaceTimeout
  \/ LoopExit
  \/ RecorderStop
  \/ DataAvailable
  \/ FinalData
  \/ OnStop
  \/ ReadBlobLoads
  \/ ReadBlobFails
  \/ ReaderThrows
  \/ Info
  \/ InfoTail
  \/ Segment
  \/ Cluster
  \/ ContainerReturn
  \/ TimecodeScale
  \/ Duration
  \/ Timecode
  \/ SimpleBlock
  \/ PassThrough
  \/ Return
  \/ ReturnFixed
  \/ Catch

RecordSpec == RecordInit /\ [][RecordNext]_vars

(* Timers fire and code that can run does run; nothing obliges the        *)
(* recorder to deliver a dataavailable event before stop().                *)
RecordFair ==
  /\ RecordSpec
  /\ WF_vars(AnimationFrame)
  /\ WF_vars(RenderNextFrame)
  /\ WF_vars(FirstDelayElapsed)
  /\ WF_vars(RaceTimeout)
  /\ WF_vars(LoopExit)
  /\ WF_vars(RecorderStop)

(***************************************************************************)
(* Properties.  They read the chunk list and the buffer; the expected      *)
(* numbers are computed here, apart from the operators the handlers use.   *)
(***************************************************************************)
IsBlockData(c) == c.tag = "SimpleBlock" /\ c.part = "data"

IsClusterStart(c) == c.tag = "Cluster" /\ c.part = "tagBytes"

IsTimecodeData(c) == c.tag = "Timecode" /\ c.part = "data"

(* The SimpleBlocks pushed before chunk i: the blocks visited so far.      *)
BlocksBefore(chs, i) == Cardinality({ k \in 1..(i - 1) : IsBlockData(chs[k]) })

(* The SimpleBlocks pushed before chunk i since a Cluster was last         *)
(* entered (since the start when none was).                                *)
BlocksSinceCluster(chs, i) ==
  Cardinality({ k \in 1..(i - 1) :
                  /\ IsBlockData(chs[k])
                  /\ \A j \in k..(i - 1) : ~IsClusterStart(chs[j]) })

(* num / den rounded to the nearest integer, halves up.                    *)
RoundHalfUp(num, den) ==
  IF 2 * (num % den) >= den THEN num \div den + 1 ELSE num \div den

(* round(m * 1000 / fps) for the rate <<numerator, denominator>>.          *)
ExpectedTime(m, rate) == RoundHalfUp(m * 1000 * rate[2], rate[1])

(* The two bytes at payload offsets 1 and 2 of a SimpleBlock chunk, as an  *)
(* unsigned number.                                                        *)
FieldValue(c, buf) == buf[c.start + 2] * 256 + buf[c.start + 3]

BlockIndexes(chs) == { i \in 1..Len(chs) : IsBlockData(chs[i]) }

(* A set of chunk indexes as an increasing sequence.                       *)
RECURSIVE InOrder(_)
InOrder(idx) ==
  IF idx = {} THEN <<>>
  ELSE LET lo == CHOOSE i \in idx : \A j \in idx : i <= j
       IN <<lo>> \o InOrder(idx \ {lo})

BlockFields ==
  LET at == InOrder(BlockIndexes(chunks))
  IN [k \in 1..Len(at) |-> FieldValue(chunks[at[k]], buffer)]

(* C1 as stated: after fixFPS the relative timecode of the n-th SimpleBlock *)
(* of the whole stream (n counted across clusters) is round(n * 1000 /      *)
(* fps).  Stated for the files a recorder writes and for the values that    *)
(* fit the signed 16-bit field.                                             *)
C1_Original ==
  (pc = "returned" /\ call = 1 /\ input \in ClusterFiles \cup {ExampleFile}) =>
    \A i \in BlockIndexes(chunks) :
      LET e == ExpectedTime(BlocksBefore(chunks, i), fps)
      IN e <= 32767 => FieldValue(chunks[i], buffer) = e

(* C1 amended: the relative timecode fixFPS writes into the SimpleBlock it  *)
(* visits is round(m * 1000 / fps) modulo 2^16, where m is the number of    *)
(* SimpleBlocks visited since the most recent Cluster was entered; in a     *)
(* file whose SimpleBlocks are each visited once these are the values of    *)
(* the output, and fps = 60 with two clusters of 5 SimpleBlocks gives       *)
(* 0, 17, 33, 50, 67, 0, 17, 33, 50, 67.                                    *)
C1_PerClusterTimecode ==
  /\ (chunks # <<>> /\ IsBlockData(chunks[Len(chunks)])) =>
       FieldValue(chunks[Len(chunks)], buffer)
         = ExpectedTime(BlocksSinceCluster(chunks, Len(chunks)), fps) % 65536
  /\ (pc = "returned"
        /\ \A i, j \in BlockIndexes(chunks) : chunks[i].start = chunks[j].start => i = j) =>
       \A i \in BlockIndexes(chunks) :
         FieldValue(chunks[i], buffer)
           = ExpectedTime(BlocksSinceCluster(chunks, i), fps) % 65536
  /\ (pc = "returned" /\ call = 1 /\ input = ExampleFile /\ fps = <<60, 1>>) =>
       BlockFields = <<0, 17, 33, 50, 67, 0, 17, 33, 50, 67>>

(* A returned run at 60 fps holding a SimpleBlock that is not the first of  *)
(* its cluster, in a cluster that is not the first to hold blocks.          *)
C1_Witness ==
  /\ pc = "returned" /\ call = 1 /\ fps = <<60, 1>>
  /\ \E i \in BlockIndexes(chunks) :
       /\ BlocksSinceCluster(chunks, i) >= 1
       /\ BlocksBefore(chunks, i) > BlocksSinceCluster(chunks, i)
       /\ FieldValue(chunks[i], buffer) # FieldValue(chunks[i], input)

(* The number a chunk of four bytes holds (big-endian).                    *)
Value32(bytes) == ((bytes[1] * 256 + bytes[2]) * 256 + bytes[3]) * 256 + bytes[4]

TimecodeIndexes(chs) == { i \in 1..Len(chs) : IsTimecodeData(chs[i]) }

TimecodeValues ==
  LET at == InOrder(TimecodeIndexes(chunks))
  IN [k \in 1..Len(at) |-> Value32(chunks[at[k]].bytes)]

(* C2: every rewritten Timecode is the 1-byte size 0x84 and four bytes      *)
(* holding round(F * 1000 / fps), F the number of SimpleBlocks visited in   *)
(* the whole stream before it; the rewritten Timecodes are non-decreasing   *)
(* in document order; fps = 60 with two clusters of 5 frames gives 0, 83.   *)
C2_ClusterTimecode ==
  /\ \A i \in TimecodeIndexes(chunks) :
       /\ ~chunks[i].view
       /\ Len(chunks[i].bytes) = 4
       /\ Value32(chunks[i].bytes) = ExpectedTime(BlocksBefore(chunks, i), fps)
       /\ chunks[i - 1].part = "sizeBytes" /\ ChunkBytes(chunks[i - 1], buffer) = <<132>>
  /\ \A i, j \in TimecodeIndexes(chunks) :
       i < j => Value32(chunks[i].bytes) <= Value32(chunks[j].bytes)
  /\ (pc = "returned" /\ call = 1 /\ input = ExampleFile /\ fps = <<60, 1>>) =>
       TimecodeValues = <<0, 83>>

(* A returned run whose second cluster's Timecode was written after        *)
(* SimpleBlocks had been visited, with a value other than 0.               *)
C2_Witness ==
  /\ pc = "returned" /\ call = 1
  /\ \E i, j \in TimecodeIndexes(chunks) :
       /\ i < j
       /\ BlocksBefore(chunks, j) > 0
       /\ Value32(chunks[i].bytes) = 0
       /\ Value32(chunks[j].bytes) > 0

(* The element that starts at offset `at` of buf, read to the buffer's     *)
(* end.                                                                    *)
ElementAt(buf, at) ==
  readEBMLStep(buf, [start |-> at, byteLength |-> Len(buf) - at], 0)

RECURSIVE ChildrenFrom(_, _, _)
(* The elements the reader yields over the view `data` of buf from         *)
(* `cursor` on.                                                            *)
ChildrenFrom(buf, data, cursor) ==
  IF cursor >= data.byteLength THEN <<>>
  ELSE LET el == readEBMLStep(buf, data, cursor)
       IN IF el.error # "none" THEN <<>>
          ELSE <<el>> \o (IF el.size < 0 THEN <<>>
                          ELSE ChildrenFrom(buf, data, el.start - data.start + el.size))

(* The children of the element el of buf.                                  *)
Children(buf, el) ==
  IF ViewFits(buf, el.start, el.length)
  THEN ChildrenFrom(buf, NewDataView(buf, el.start, el.length), 0)
  ELSE <<>>

WithTag(els, tag) == { k \in 1..Len(els) : els[k].tag = tag }

ChunkLen(c) == IF c.view THEN c.len ELSE Len(c.bytes)

RECURSIVE TotalLen(_, _, _)
(* The bytes of chunks from..to.                                           *)
TotalLen(chs, from, to) ==
  IF from > to THEN 0 ELSE ChunkLen(chs[from]) + TotalLen(chs, from + 1, to)

IsInfoSize(c) == c.tag = "Info" /\ c.part = "sizeBytes"

IsDurationHeader(c) == c.tag = "Duration" /\ c.part = "header"

(* The Info size chunks whose handler has finished: an added Duration      *)
(* follows.                                                                *)
InfoIndexes(chs) ==
  { i \in 1..Len(chs) : IsInfoSize(chs[i]) /\ \E j \in (i + 1)..Len(chs) : IsDurationHeader(chs[j]) }

(* The chunk index of the Duration added for the Info at i (the Info       *)
(* elements of the model's files do not nest).                             *)
AddedDuration(chs, i) ==
  CHOOSE j \in (i + 1)..Len(chs) :
    IsDurationHeader(chs[j]) /\ \A k \in (i + 1)..(j - 1) : ~IsDurationHeader(chs[k])

(* The size an Info size chunk declares: 0x08, then 32 bits.               *)
DeclaredInfoSize(c) == Value32(SubSeq(c.bytes, 2, 5))

(* C3: the size written for Info equals the byte length of the Info         *)
(* children emitted (rewritten TimecodeScale, added Duration, passed        *)
(* through children), for every Info content.                               *)
C3_SizeAccounting ==
  (pc = "returned" /\ call = 1 /\ input \in InfoFiles) =>
    \A i \in InfoIndexes(chunks) :
      DeclaredInfoSize(chunks[i]) = TotalLen(chunks, i + 1, AddedDuration(chunks, i) + 1)

(* C4: fixFPS applied to the bytes of its own output, with the same fps     *)
(* and numFrames, returns chunks whose bytes are the first output.          *)
C4_RerunStable ==
  (call = 2 /\ ~first.shared /\ pc \in {"returned", "thrown"}) =>
    (pc = "returned" /\ BlobOf(chunks, buffer) = first.out)

(* (numFrames / fps) * 1000 as a big-endian double, for the frame counts    *)
(* and rates of the model (reference values of IEEE 754 arithmetic).        *)
ReferenceDuration(frames, rate) ==
  CASE frames = 7 /\ rate = <<60, 1>> -> <<64, 93, 42, 170, 170, 170, 170, 171>>
    [] frames = 7 /\ rate = <<16, 1>> -> <<64, 123, 88, 0, 0, 0, 0, 0>>
    [] frames = 7 /\ rate = <<1, 64>> -> <<65, 27, 88, 0, 0, 0, 0, 0>>
    [] frames = 300 /\ rate = <<60, 1>> -> <<64, 179, 136, 0, 0, 0, 0, 0>>
    [] frames = 300 /\ rate = <<16, 1>> -> <<64, 210, 79, 128, 0, 0, 0, 0>>
    [] frames = 300 /\ rate = <<1, 64>> -> <<65, 114, 79, 128, 0, 0, 0, 0>>
    [] OTHER -> <<>>

(* The input element whose identifier the Info size chunk i follows.        *)
InfoElement(chs, i) == ElementAt(input, chs[i - 1].start)

(* C5: what the handlers emit for an Info holds exactly one Duration, the   *)
(* added one (0x44 0x89, size 0x88, the 8 bytes of numFrames / fps * 1000), *)
(* after all chunks of the Info's children; no Duration of the input is     *)
(* emitted.                                                                 *)
C5_OneDuration ==
  /\ \A i \in 1..Len(chunks) : chunks[i].tag = "Duration" => ~chunks[i].view
  /\ pc = "returned" =>
       /\ Cardinality({ j \in 1..Len(chunks) : IsDurationHeader(chunks[j]) })
            = Cardinality({ i \in 1..Len(chunks) : IsInfoSize(chunks[i]) })
       /\ \A i \in InfoIndexes(chunks) :
            LET j == AddedDuration(chunks, i)
                el == InfoElement(chunks, i)
                inside(c) == /\ c.view
                             /\ c.start >= el.start
                             /\ el.length = undefined \/ c.start + c.len <= el.start + el.length
            IN /\ chunks[j].bytes = <<68, 137, 136>>
               /\ chunks[j + 1].tag = "Duration" /\ chunks[j + 1].part = "data"
               /\ chunks[j + 1].bytes = ReferenceDuration(numFrames, fps)
               /\ \A k \in (i + 1)..(j - 1) : inside(chunks[k]) \/ chunks[k].tag = "TimecodeScale"
               /\ el.length # undefined =>
                    \A k \in (j + 2)..Len(chunks) :
                      chunks[k].view => chunks[k].start >= el.start + el.length

(* A returned run whose Info held a Duration in the input and whose output  *)
(* holds the added one behind the other children.                           *)
C5_Witness ==
  /\ pc = "returned" /\ call = 1
  /\ \E i \in InfoIndexes(chunks) :
       /\ WithTag(Children(input, InfoElement(chunks, i)), "Duration") # {}
       /\ AddedDuration(chunks, i) > i + 4

IsScaleTag(c) == c.tag = "TimecodeScale" /\ c.part = "tagBytes"

(* C6: a TimecodeScale is emitted as its own identifier bytes, the size     *)
(* byte 0x84 and the four bytes 00 0F 42 40 (1,000,000), whatever its       *)
(* source width and value.                                                  *)
C6_CanonicalScale ==
  /\ \A i \in 1..Len(chunks) :
       IsScaleTag(chunks[i]) =>
         /\ chunks[i].view
         /\ ChunkBytes(chunks[i], buffer) = <<42, 215, 177>>
         /\ ChunkBytes(chunks[i], buffer) = ChunkBytes(chunks[i], input)
         /\ Len(chunks) >= i + 2
         /\ chunks[i + 1].tag = "TimecodeScale" /\ chunks[i + 1].part = "sizeBytes"
         /\ ChunkBytes(chunks[i + 1], buffer) = <<132>>
         /\ chunks[i + 2].tag = "TimecodeScale" /\ chunks[i + 2].part = "data"
         /\ ChunkBytes(chunks[i + 2], buffer) = <<0, 15, 66, 64>>
  /\ \A i \in 1..Len(chunks) :
       (chunks[i].tag = "TimecodeScale" /\ chunks[i].part # "tagBytes") =>
         \E k \in {i - 1, i - 2} : k >= 1 /\ IsScaleTag(chunks[k])

(* A TimecodeScale of 8 payload bytes behind a 2-byte size field, emitted.  *)
C6_Witness ==
  /\ pc = "returned" /\ call = 1
  /\ \E i \in 1..Len(chunks) :
       /\ IsScaleTag(chunks[i])
       /\ ElementAt(input, chunks[i].start).length = 8
       /\ ElementAt(input, chunks[i].start).sizeBytes.byteLength = 2

(* C7: an Info of declared size S with no Duration child and one            *)
(* TimecodeScale child of payload width w, the payload lying inside the     *)
(* Info, is written with the size S + (4 - w) + 11.                         *)
C7_InfoSize ==
  pc = "returned" =>
    \A i \in InfoIndexes(chunks) :
      LET el == InfoElement(chunks, i)
          kids == Children(input, el)
          scales == WithTag(kids, "TimecodeScale")
      IN (/\ el.length # undefined
          /\ WithTag(kids, "Duration") = {}
          /\ Cardinality(scales) = 1
          /\ \A k \in scales : /\ kids[k].length # undefined
                                /\ kids[k].start + kids[k].length <= el.start + el.length) =>
           \A k \in scales :
             DeclaredInfoSize(chunks[i]) = el.length + (4 - kids[k].length) + 11

(* An Info without a Duration whose 1-byte TimecodeScale makes it grow by   *)
(* 14.                                                                      *)
C7_Witness ==
  /\ pc = "returned" /\ call = 1
  /\ \E i \in InfoIndexes(chunks) :
       LET el == InfoElement(chunks, i)
           kids == Children(input, el)
       IN /\ el.length # undefined
          /\ WithTag(kids, "Duration") = {}
          /\ \E k \in WithTag(kids, "TimecodeScale") : kids[k].length = 1
          /\ DeclaredInfoSize(chunks[i]) = el.length + 14

(* The bytes of buf a view covers.                                         *)
ViewBytes(buf, data) == SubSeq(buf, data.start + 1, data.start + data.byteLength)

(* The files a recorder writes and the files without handled elements:     *)
(* every element is visited once.                                          *)
PlainOrRecorded == InfoFiles \cup ClusterFiles \cup PlainFiles \cup {ExampleFile}

(* The reader is about to yield an element without a handler, and parse    *)
(* goes on after it.                                                       *)
PassThroughStep ==
  /\ pc = "running" /\ ~AtEnd(Top) /\ Cur.error = "none" /\ Cur.tag \notin Handled
  /\ pc' = "running"

(* No handled element at the top level of buf, which reads to its end.     *)
NothingHandled(buf) ==
  LET els == ChildrenFrom(buf, [start |-> 0, byteLength |-> Len(buf)], 0)
  IN /\ els # <<>>
     /\ \A k \in 1..Len(els) : els[k].tag \notin Handled

(* C8: an element without a handler is emitted as three chunks, its         *)
(* identifier bytes, size bytes and payload bytes as the input holds them;  *)
(* chunks are only ever appended, in the order the elements are met, and    *)
(* for a file with no handled element the output is the input.              *)
C8_PassThrough ==
  /\ [][PassThroughStep =>
          LET n == Len(chunks)
              el == Cur
          IN /\ Len(chunks') = n + 3
             /\ SubSeq(chunks', 1, n) = chunks
             /\ \A k \in 1..3 : chunks'[n + k].view /\ chunks'[n + k].tag = el.tag
             /\ ChunkBytes(chunks'[n + 1], buffer') = ViewBytes(input, el.tagBytes)
             /\ ChunkBytes(chunks'[n + 2], buffer') = ViewBytes(input, el.sizeBytes)
             /\ ChunkBytes(chunks'[n + 3], buffer')
                  = SubSeq(input, el.start + 1,
                           IF el.length = undefined THEN Len(input)
                           ELSE el.start + el.length)
             /\ chunks'[n + 1].start + 1 <= chunks'[n + 2].start
             /\ chunks'[n + 2].start + chunks'[n + 2].len = chunks'[n + 3].start]_vars
  /\ [][call' = call =>
          /\ Len(chunks') >= Len(chunks)
          /\ \A i \in 1..Len(chunks) : chunks'[i] = chunks[i] \/ IsInfoSize(chunks[i])]_vars
  /\ []((call = 1 /\ input \in PlainOrRecorded) =>
          \A i, j \in 1..Len(chunks) :
            (i < j /\ chunks[i].view /\ chunks[j].view) =>
              chunks[i].start + chunks[i].len <= chunks[j].start)
  /\ []((pc = "returned" /\ NothingHandled(input)) => BlobOf(chunks, buffer) = input)

(* A file of three elements without handlers, returned as nine chunks.      *)
C8_Witness ==
  /\ pc = "returned" /\ call = 1
  /\ NothingHandled(input)
  /\ Len(chunks) = 9
  /\ BlobOf(chunks, buffer) = input

(* The bytes of seq with the positions of `holes` left out of the           *)
(* comparison.                                                              *)
SameExcept(a, b, holes) ==
  /\ Len(a) = Len(b)
  /\ \A p \in 1..Len(a) : p \notin holes => a[p] = b[p]

(* C9: the SimpleBlock handler changes the bytes at payload offsets 1 and   *)
(* 2 and nothing else; the identifier bytes, size bytes, payload byte 0     *)
(* and payload bytes 3 onward it emits are the input's.                     *)
C9_OnlyTimecodeBytes ==
  /\ [][(Yields("SimpleBlock") /\ pc' = "running") =>
          LET n == Len(chunks)
              el == Cur
          IN /\ SameExcept(buffer', buffer, {el.start + 2, el.start + 3})
             /\ Len(chunks') = n + 3
             /\ SubSeq(chunks', 1, n) = chunks
             /\ ChunkBytes(chunks'[n + 1], buffer') = ViewBytes(input, el.tagBytes)
             /\ ChunkBytes(chunks'[n + 2], buffer') = ViewBytes(input, el.sizeBytes)
             /\ chunks'[n + 3].start = el.start
             /\ Len(ChunkBytes(chunks'[n + 3], buffer')) >= 3
             /\ SameExcept(ChunkBytes(chunks'[n + 3], buffer'),
                           ChunkBytes(chunks'[n + 3], input), {2, 3})]_vars
  /\ []((pc = "returned" /\ call = 1 /\ input \in PlainOrRecorded) =>
          \A i \in BlockIndexes(chunks) :
            /\ ChunkBytes(chunks[i - 2], buffer) = ChunkBytes(chunks[i - 2], input)
            /\ ChunkBytes(chunks[i - 1], buffer) = ChunkBytes(chunks[i - 1], input)
            /\ SameExcept(ChunkBytes(chunks[i], buffer), ChunkBytes(chunks[i], input),
                          {2, 3}))

(* A returned run that rewrote the timecode of a SimpleBlock whose payload  *)
(* has bytes behind the timecode.                                           *)
C9_Witness ==
  /\ pc = "returned" /\ call = 1
  /\ \E i \in BlockIndexes(chunks) :
       /\ chunks[i].len >= 5
       /\ FieldValue(chunks[i], buffer) # FieldValue(chunks[i], input)
       /\ buffer[chunks[i].start + 1] = 129

(* C10 as stated: when the call has returned or failed the buffer holds     *)
(* the bytes it held before the call, and the chunks the first call         *)
(* returned hold what they held when the buffer goes through another call.  *)
C10_Original ==
  /\ (call = 1 /\ pc \in {"returned", "thrown"}) => buffer = input
  /\ FirstChunksNow = first.out

(* C10 amended: fixFPS writes payload bytes 1 and 2 of the SimpleBlocks it  *)
(* has visited and no other byte of its buffer, also when it fails later;   *)
(* the chunks it returned are views of that buffer, and after another call  *)
(* on the buffer they show the timecodes of that call's fps.                *)
C10_InPlace ==
  /\ Len(buffer) = Len(input)
  /\ \A p \in 1..Len(buffer) :
       buffer[p] # input[p] =>
         \E i \in BlockIndexes(chunks) : p \in {chunks[i].start + 2, chunks[i].start + 3}
  /\ (first.shared /\ pc = "returned"
        /\ \A i, j \in BlockIndexes(first.chunks) :
             first.chunks[i].start = first.chunks[j].start => i = j) =>
       \A i \in BlockIndexes(first.chunks) :
         /\ first.chunks[i].view
         /\ FieldValue(first.chunks[i], buffer)
              = ExpectedTime(BlocksSinceCluster(first.chunks, i), fps) % 65536

(* The buffer of a returned first call went through a second call with      *)
(* another fps, and the chunks of the first call no longer hold what they   *)
(* held.                                                                    *)
C10_Witness ==
  /\ call = 2 /\ first.shared /\ pc = "returned"
  /\ buffer # input
  /\ FirstChunksNow # first.out

(* A call that failed after it had rewritten a SimpleBlock.                 *)
C10_FailedAfterWrite == call = 1 /\ pc = "thrown" /\ buffer # input

(* The width a first byte announces: the 1-indexed position of its first   *)
(* set bit, for a byte that has one.                                       *)
MarkerWidth(byte) ==
  CHOOSE n \in 1..8 : byte >= Pow2(8 - n) /\ (n = 1 \/ byte < Pow2(9 - n))

RECURSIVE BigEndian(_)
(* The number that at most four bytes spell.                               *)
BigEndian(bytes) ==
  IF bytes = <<>> THEN 0
  ELSE BigEndian(SubSeq(bytes, 1, Len(bytes) - 1)) * 256 + bytes[Len(bytes)]

(* At offset cursor of the view an identifier stands, whole, that the      *)
(* schema table does not hold.                                             *)
UnknownIdAt(buf, data, cursor) ==
  LET at == data.start + cursor
      n == MarkerWidth(buf[at + 1])
  IN /\ buf[at + 1] # 0
     /\ cursor + n <= data.byteLength
     /\ n > 4 \/ BigEndian(SubSeq(buf, at + 1, at + n)) \notin schemaIds

(* C11: when the reader comes to an identifier that is not in the schema   *)
(* table, at the top level or inside a Segment, Cluster or Info it was     *)
(* called on, fixFPS throws "unknown element"; a call that has thrown      *)
(* returns nothing, whatever chunks it had pushed.                         *)
C11_UnknownIdFails ==
  /\ [][(pc = "running" /\ ~AtEnd(Top) /\ UnknownIdAt(buffer, Top.data, Top.cursor)) =>
          (pc' = "thrown" /\ error' = "unknown element" /\ stack' = <<>>)]_vars
  /\ [][pc # "thrown"]_vars

(* A call that threw on an unknown identifier inside a Segment, after it   *)
(* had pushed chunks.                                                      *)
C11_Witness ==
  /\ pc = "thrown" /\ error = "unknown element"
  /\ Len(chunks) > 6
  /\ \E i \in 1..Len(chunks) : chunks[i].tag = "Segment"

(* recordCanvas is in its catch block: readBlob rejected or fixFPS threw.   *)
RewriteFailed == (rpc = "fixing" /\ pc = "thrown") \/ rpc = "caught"

(* C12: when readBlob or fixFPS fails, recordCanvas resolves, and the Blob  *)
(* it resolves with holds the payloads of the dataavailable events in the   *)
(* order of their delivery, as they were delivered, also when fixFPS had    *)
(* rewritten SimpleBlocks of its buffer before it failed.                   *)
C12_Fallback ==
  /\ [][RewriteFailed => (rpc' = "resolved" /\ result' = Flatten(delivered))]_vars
  /\ []((rpc = "resolved" /\ pc # "returned") => result = Flatten(delivered))
  /\ [][rpc = "resolved" => (rpc' = "resolved" /\ result' = result)]_vars

(* recordCanvas resolved with the captured bytes of two Blobs after fixFPS  *)
(* had rewritten a SimpleBlock of its buffer and then failed.               *)
C12_Witness ==
  /\ rpc = "resolved" /\ pc = "thrown"
  /\ buffer # input
  /\ Len(recorderChunks) >= 2
  /\ result = input

(* recordCanvas resolved with the captured bytes after readBlob rejected.   *)
C12_ReadFailed == rpc = "resolved" /\ pc = "idle" /\ result # <<>>

(* The element el, read in the range `data`, declares more payload bytes    *)
(* than the range has left behind its size field.                           *)
Overruns(el, data) ==
  el.length # undefined /\ el.start + el.length > data.start + data.byteLength

RECURSIVE OverrunVisited(_, _)
(* Among the elements of the range `data` of buf, and of the Segments,      *)
(* Clusters and Infos in it, one overruns the range it is read in.          *)
OverrunVisited(buf, data) ==
  LET els == ChildrenFrom(buf, data, 0)
  IN \E k \in 1..Len(els) :
       \/ Overruns(els[k], data)
       \/ /\ els[k].tag \in {"Segment", "Cluster", "Info"}
          /\ ViewFits(buf, els[k].start, els[k].length)
          /\ OverrunVisited(buf, NewDataView(buf, els[k].start, els[k].length))

(* C13: a call of fixFPS on a buffer in which a visited element declares a  *)
(* size larger than the bytes left in the range it is read in does not      *)
(* return.                                                                  *)
C13_OverrunFails ==
  (call = 1 /\ pc = "returned") =>
    ~OverrunVisited(input, [start |-> 0, byteLength |-> Len(input)])

(* The reader stands at an offset of its range.                             *)
Reading == pc = "running" /\ ~AtEnd(Top)

(* C14: readVintLength returns the 1-indexed position of the first set bit  *)
(* of the byte, a value in 1..8, and the read fails on the byte 0x00.       *)
C14_LengthInRange ==
  Reading =>
    LET lengthByte == getUint8(buffer, Top.data, Top.cursor)
        length == readVintLength(buffer, Top.data, Top.cursor)
    IN /\ length \in 1..8
       /\ lengthByte # 0 => length = MarkerWidth(lengthByte)
       /\ lengthByte = 0 => Cur.error # "none"

(* The w bytes of a size field hold the marker bit and value bits that      *)
(* are all ones.                                                            *)
AllOnes(bytes) ==
  /\ bytes[1] = Pow2(9 - Len(bytes)) - 1
  /\ \A i \in 2..Len(bytes) : bytes[i] = 255

(* The value bits of an 8-byte size field exceed 2^53 - 1.                  *)
BeyondExact(bytes) == Len(bytes) = 8 /\ bytes[2] >= 32

(* C15: a size field of width 1..8 is read as Unknown exactly when its      *)
(* value bits are all ones or its value exceeds the exact-integer range,    *)
(* and as its big-endian value otherwise; 0xFF is Unknown.                  *)
C15_UnknownSizes ==
  (Reading /\ Cur.error = "none" /\ Cur.sizeBytes.byteLength \in 1..8) =>
    LET bytes == ViewBytes(buffer, Cur.sizeBytes)
    IN (Cur.length = undefined) <=> (AllOnes(bytes) \/ BeyondExact(bytes))

(* The frame f of a running parse() is still the frame g, one step later.   *)
SameParse(f, g) == f.data = g.data /\ f.handler = g.handler /\ f.el = g.el

(* The offsets in the range `data` at which the elements of that level      *)
(* start.                                                                   *)
LevelOffsets(buf, data) ==
  LET els == ChildrenFrom(buf, data, 0)
  IN { els[k].tagBytes.start : k \in 1..Len(els) }

(* C16: at one level the reader goes from an element to the offset where    *)
(* that element's payload ends, which lies further on, and nowhere else;    *)
(* behind an element of unknown size it is finished and yields nothing      *)
(* more at that level; it never stands inside the payload of an element it  *)
(* yielded.                                                                 *)
C16_OneLevel ==
  /\ [][call' = call =>
          \A k \in 1..Len(stack') :
            (k <= Len(stack) /\ SameParse(stack[k], stack'[k]) /\ stack'[k] # stack[k]) =>
              LET f == stack[k]
                  el == readEBMLStep(buffer, f.data, f.cursor)
              IN /\ ~f.done /\ f.cursor < f.data.byteLength
                 /\ el.error = "none"
                 /\ IF el.length = undefined
                    THEN stack'[k].done /\ stack'[k].cursor = f.cursor
                    ELSE /\ ~stack'[k].done
                         /\ IF el.length < Huge
                            THEN stack'[k].cursor = (el.start + el.length) - f.data.start
                            ELSE stack'[k].cursor >= Huge
                         /\ stack'[k].cursor > f.cursor]_vars
  /\ []((Reading /\ Cur.error = "none") =>
          Top.data.start + Top.cursor \in LevelOffsets(buffer, Top.data))
  /\ []((pc = "returned" /\ call = 1 /\ NothingHandled(input)) =>
          { chunks[i].start : i \in { j \in 1..Len(chunks) : chunks[j].part = "tagBytes" } }
            = LevelOffsets(input, [start |-> 0, byteLength |-> Len(input)]))

(* The reader of a level is finished behind an element of unknown size      *)
(* that it yielded after another element, with bytes of its range left.     *)
C16_Witness ==
  /\ pc = "running" /\ stack # <<>>
  /\ Top.done
  /\ Top.cursor > 0 /\ Top.cursor < Top.data.byteLength
  /\ readEBMLStep(buffer, Top.data, Top.cursor).length = undefined

(* The offset behind the last byte of a range.                              *)
EndOf(data) == data.start + data.byteLength

(* C17: the range fixFPS reads an unknown-size element in ends where the    *)
(* range of the enclosing element ends, and in the output of a file         *)
(* without overrunning sizes no byte of the input appears twice.            *)
C17_UnknownEndsWithParent ==
  /\ \A k \in 2..Len(stack) :
       stack[k].el.length = undefined => EndOf(stack[k].data) <= EndOf(stack[k - 1].data)
  /\ (call = 1 /\ pc = "returned"
        /\ ~OverrunVisited(input, [start |-> 0, byteLength |-> Len(input)])) =>
       \A i, j \in 1..Len(chunks) :
         (i < j /\ chunks[i].view /\ chunks[j].view) =>
           chunks[i].start + chunks[i].len <= chunks[j].start

IsContainerTag(c) == c.tag \in {"Segment", "Cluster"} /\ c.part = "tagBytes"

(* The identifier bytes of Segment and of Cluster.                          *)
ContainerId(tag) ==
  IF tag = "Segment" THEN <<24, 83, 128, 103>> ELSE <<31, 67, 182, 117>>

(* C18: a Segment or Cluster is emitted as its identifier bytes, taken      *)
(* from the input, and the 8 bytes 01 FF FF FF FF FF FF FF, whatever size   *)
(* the input declared; its payload is then read by a parse() of its own,    *)
(* whose elements go to the same handlers: the SimpleBlocks and Timecodes   *)
(* inside the clusters of the example file are all rewritten.               *)
C18_ForcedUnknownSize ==
  /\ [](\A i \in 1..Len(chunks) :
          IsContainerTag(chunks[i]) =>
            /\ chunks[i].view
            /\ ChunkBytes(chunks[i], buffer) = ContainerId(chunks[i].tag)
            /\ ChunkBytes(chunks[i], buffer) = ChunkBytes(chunks[i], input)
            /\ Len(chunks) > i
            /\ chunks[i + 1].tag = chunks[i].tag /\ chunks[i + 1].part = "sizeBytes"
            /\ ~chunks[i + 1].view
            /\ chunks[i + 1].bytes = <<1, 255, 255, 255, 255, 255, 255, 255>>)
  /\ [](\A i \in 1..Len(chunks) :
          (chunks[i].tag \in {"Segment", "Cluster"} /\ chunks[i].part # "tagBytes") =>
            (i > 1 /\ IsContainerTag(chunks[i - 1]) /\ chunks[i].part = "sizeBytes"))
  /\ [][((Yields("Segment") \/ Yields("Cluster")) /\ pc' = "running") =>
          LET el == Cur
          IN /\ Len(chunks') = Len(chunks) + 2
             /\ IsContainerTag(chunks'[Len(chunks) + 1])
             /\ chunks'[Len(chunks) + 1].start = el.tagBytes.start
             /\ Len(stack') = Len(stack) + 1
             /\ stack'[Len(stack')].cursor = 0 /\ ~stack'[Len(stack')].done
             /\ stack'[Len(stack')].data.start = el.start
             /\ EndOf(stack'[Len(stack')].data)
                  = IF el.length = undefined THEN Len(buffer) ELSE el.start + el.length]_vars
  /\ []((pc = "returned" /\ call = 1 /\ input = ExampleFile) =>
          /\ Cardinality(BlockIndexes(chunks)) = 10
          /\ Cardinality(TimecodeIndexes(chunks)) = 2
          /\ \A i \in BlockIndexes(chunks) \cup TimecodeIndexes(chunks) :
               \E s, c \in 1..(i - 1) :
                 /\ s < c
                 /\ chunks[s].tag = "Segment" /\ chunks[c].tag = "Cluster")

(* A returned run that emitted a Segment whose input size field was two     *)
(* bytes and a Cluster whose input size field was one byte.                 *)
C18_Witness ==
  /\ pc = "returned" /\ call = 1
  /\ \E i, j \in 1..Len(chunks) :
       /\ IsContainerTag(chunks[i]) /\ chunks[i].tag = "Segment"
       /\ ElementAt(input, chunks[i].start).sizeBytes.byteLength = 2
       /\ IsContainerTag(chunks[j]) /\ chunks[j].tag = "Cluster"
       /\ ElementAt(input, chunks[j].start).sizeBytes.byteLength = 1
       /\ chunks[j + 1].bytes = UNKNOWN_SIZE

IsHeaderTag(c) == c.tag = "EBML" /\ c.part = "tagBytes"

(* C19 as stated: the EBML header element is emitted like a Segment, its    *)
(* identifier followed by the unknown-size sentinel, and its children are   *)
(* decoded.                                                                 *)
C19_Original ==
  \A i \in 1..Len(chunks) :
    (IsHeaderTag(chunks[i]) /\ Len(chunks) > i) =>
      (~chunks[i + 1].view /\ chunks[i + 1].bytes = <<1, 255, 255, 255, 255, 255, 255, 255>>)

(* C19 amended: the EBML header element has no handler; it is emitted as    *)
(* three views of the input (identifier bytes, size bytes as the input      *)
(* encodes them, the whole payload), no parse() is started on its payload   *)
(* and none of its children is decoded.                                     *)
C19_HeaderVerbatim ==
  /\ [](\A i \in 1..Len(chunks) :
          IsHeaderTag(chunks[i]) =>
            LET el == ElementAt(input, chunks[i].start)
            IN /\ Len(chunks) >= i + 2
               /\ \A k \in 0..2 : chunks[i + k].view /\ chunks[i + k].tag = "EBML"
               /\ ChunkBytes(chunks[i], buffer) = <<26, 69, 223, 163>>
               /\ chunks[i + 1].part = "sizeBytes"
               /\ ChunkBytes(chunks[i + 1], buffer) = ViewBytes(input, el.sizeBytes)
               /\ chunks[i + 2].part = "data"
               /\ chunks[i + 2].start = el.start /\ chunks[i + 2].len = el.length
               /\ ChunkBytes(chunks[i + 2], buffer) = ChunkBytes(chunks[i + 2], input))
  /\ [](\A i \in 1..Len(chunks) : chunks[i].tag # "DocType")
  /\ [](\A k \in 1..Len(stack) : stack[k].el.tag # "EBML")
  /\ [][(Reading /\ Cur.error = "none" /\ Cur.tag = "EBML" /\ pc' = "running") =>
          (Len(stack') = Len(stack) /\ Len(chunks') = Len(chunks) + 3)]_vars

(* A returned run whose output starts with the EBML header of the input,    *)
(* its 1-byte size and its DocType child included, before a rewritten       *)
(* Segment.                                                                 *)
C19_Witness ==
  /\ pc = "returned" /\ call = 1
  /\ Len(chunks) > 4
  /\ IsHeaderTag(chunks[1])
  /\ ChunkBytes(chunks[2], buffer) = <<135>>
  /\ ChunkBytes(chunks[3], buffer) = <<66, 130, 132, 119, 101, 98, 109>>
  /\ chunks[4].tag = "Segment"

(* recordCanvas has left its render loop.                                   *)
LoopLeft == rpc \in {"finalDelay", "awaitStop", "reading", "fixing", "caught", "resolved"}

(* C20: the numFrames recordCanvas hands to fixFPS is the number of         *)
(* invocations of renderNextFrame; renderNextFrame is invoked at least      *)
(* once, and not again once it has returned true (which it does at its      *)
(* lastAt-th invocation).                                                   *)
C20_FrameCount ==
  /\ [](numFrames = renders)
  /\ [](LoopLeft => (renders >= 1 /\ renders = lastAt))
  /\ [](renders <= lastAt)
  /\ [][renders' # renders => (renders' = renders + 1 /\ renders < lastAt /\ ~LoopLeft)]_vars
  /\ [][(rpc = "reading" /\ rpc' = "fixing") =>
          (pc' = "running" /\ numFrames' = renders /\ fps' = fps)]_vars
  /\ [][(rpc \in {"fixing", "resolved"}) => (numFrames' = numFrames)]_vars

(* fixFPS is at work with the frame count 7 after seven invocations of a    *)
(* renderNextFrame that returned true at the seventh.                       *)
C20_Witness ==
  /\ rpc = "fixing" /\ pc = "running"
  /\ chunks # <<>>
  /\ lastAt = 7 /\ renders = 7 /\ numFrames = 7

(* fixFPS is at work with the frame count 1: renderNextFrame returned true  *)
(* at its first invocation.                                                 *)
C20_OneFrame == rpc = "fixing" /\ pc = "running" /\ renders = 1 /\ numFrames = 1

(* A call of fixFPS has just begun: nothing read, nothing pushed.           *)
CallBegins ==
  /\ pc = "running" /\ chunks = <<>>
  /\ Len(stack) = 1 /\ Top.cursor = 0 /\ ~Top.done

(* C21: of the two counters of a fixFPS pass, the per-cluster one           *)
(* (frameIndex in the code) and the global one (clusterFrameIndex in the    *)
(* code) start at 0; a visited SimpleBlock adds 1 to both; entering a       *)
(* Cluster sets the per-cluster one to 0 and keeps the global one; nothing  *)
(* else changes them.  So the global one is the number of SimpleBlocks      *)
(* visited, the per-cluster one the number visited since a Cluster was      *)
(* last entered, and per-cluster <= global.                                 *)
C21_Counters ==
  /\ [](CallBegins => (frameIndex = 0 /\ clusterFrameIndex = 0))
  /\ [][call' = call =>
          IF Yields("SimpleBlock") /\ pc' = "running"
          THEN frameIndex' = frameIndex + 1 /\ clusterFrameIndex' = clusterFrameIndex + 1
          ELSE IF Yields("Cluster")
          THEN frameIndex' = 0 /\ clusterFrameIndex' = clusterFrameIndex
          ELSE frameIndex' = frameIndex /\ clusterFrameIndex' = clusterFrameIndex]_vars
  /\ [](/\ clusterFrameIndex = Cardinality(BlockIndexes(chunks))
        /\ frameIndex = BlocksSinceCluster(chunks, Len(chunks) + 1)
        /\ frameIndex <= clusterFrameIndex)

(* A pass in its second cluster: the per-cluster counter is behind the      *)
(* global one after both have counted.                                      *)
C21_Witness ==
  /\ pc = "running" /\ call = 1
  /\ frameIndex >= 1
  /\ clusterFrameIndex > frameIndex
  /\ Cardinality({ i \in 1..Len(chunks) : IsClusterStart(chunks[i]) }) >= 2

(* C22: every wait of the loop ends, by a dataavailable event or by the     *)
(* 500 ms timer; with timers that fire, recorder.stop() is called once      *)
(* renderNextFrame has returned true, also when no dataavailable event      *)
(* was ever delivered; an event delivered during the first-frame delay is   *)
(* kept and can end the next wait at once.                                  *)
C22_LoopEnds ==
  /\ <>(recorder # "recording")
  /\ (rpc = "race") ~> (rpc = "loop")
  /\ [][(rpc = "race" /\ rpc' # "race") => (rpc' = "loop" /\ ~dataAvailable')]_vars
  /\ [][(rpc = "firstDelay" /\ dataAvailable) => dataAvailable']_vars
  /\ []((rpc = "race" /\ dataAvailable) => ENABLED RaceDataAvailable)

(* recorder.stop() was called after seven frames without any dataavailable  *)
(* event: every wait was ended by its timer.                                *)
C22_Witness ==
  /\ rpc = "awaitStop" /\ recorder = "stopping"
  /\ renders = 7 /\ last
  /\ delivered = <<>>

(* The first wait begins with a dataavailable event of the first-frame      *)
(* delay remembered.                                                        *)
C22_Remembered == rpc = "race" /\ renders = 1 /\ dataAvailable /\ delivered # <<>>

RECURSIVE NonEmpty(_)
(* The payloads of a delivery history that hold bytes, in order.            *)
NonEmpty(payloads) ==
  IF payloads = <<>> THEN <<>>
  ELSE IF Head(payloads) = <<>> THEN NonEmpty(Tail(payloads))
  ELSE <<Head(payloads)>> \o NonEmpty(Tail(payloads))

(* The captured bytes are being, or have been, assembled.                   *)
Assembled == rpc \in {"reading", "fixing", "caught", "resolved"}

(* C23: recorder.stop() is called only when renderNextFrame has returned    *)
(* true and the final delay is over; the captured bytes are assembled only  *)
(* after the recorder's stop event; the chunk list is then, as at every     *)
(* moment, the non-empty payloads of the dataavailable events delivered so  *)
(* far, in the order of delivery, each once.                                *)
C23_CaptureOrder ==
  /\ [][(recorder = "recording" /\ recorder' # "recording") =>
          (rpc = "finalDelay" /\ last /\ renders = lastAt /\ renders >= 1)]_vars
  /\ [][(~Assembled /\ Assembled') =>
          (rpc = "awaitStop" /\ recorder = "flushed" /\ recorder' = "inactive")]_vars
  /\ [](Assembled => (recorder = "inactive" /\ media = <<>>))
  /\ [](recorderChunks = NonEmpty(delivered))
  /\ [][Flatten(delivered') \o media' = Flatten(delivered) \o media]_vars
  /\ [][(rpc = "reading" /\ rpc' = "fixing") => input' = Flatten(NonEmpty(delivered))]_vars
  /\ [][Assembled =>
          (recorderChunks' = recorderChunks /\ delivered' = delivered)]_vars

(* The bytes are assembled from three Blobs after four events, one of       *)
(* them empty.                                                              *)
C23_Witness ==
  /\ rpc = "reading"
  /\ Len(delivered) = 4
  /\ Len(recorderChunks) = 3
  /\ \E k \in 1..3 : delivered[k] = <<>>

(* Two bytes read as a signed 16-bit big-endian number.                     *)
Signed16(hi, lo) ==
  LET u == hi * 256 + lo
  IN IF u >= 32768 THEN u - 65536 ELSE u

(* C24: the SimpleBlock handler stores round(i * 1000 / fps), i its         *)
(* counter, in the two bytes behind the track number without a range        *)
(* check: the bytes are that value modulo 2^16, most significant first,     *)
(* for values above 32767 too; no error is raised and the transform goes    *)
(* on; read back as a signed 16-bit number the field equals the value       *)
(* exactly when the value is at most 32767.                                 *)
C24_WrapAround ==
  [][(/\ Yields("SimpleBlock")
      /\ call' = call
      /\ ViewFits(buffer, Cur.start, Cur.length)
      /\ NewDataView(buffer, Cur.start, Cur.length).byteLength >= 3) =>
       (LET v == ExpectedTime(frameIndex, fps)
            w == v % 65536
        IN /\ buffer'[Cur.start + 2] = w \div 256
           /\ buffer'[Cur.start + 3] = w % 256
           /\ \A q \in 1..Len(buffer) :
                q \notin {Cur.start + 2, Cur.start + 3} => buffer'[q] = buffer[q]
           /\ pc' = "running" /\ error' = error
           /\ Len(chunks') = Len(chunks) + 3
           /\ (Signed16(buffer'[Cur.start + 2], buffer'[Cur.start + 3]) = v)
                <=> (v <= 32767))]_vars

(* A returned run at 1/64 fps: a SimpleBlock whose value is above 65535     *)
(* holds the value modulo 2^16, and a later SimpleBlock was rewritten too.  *)
C24_Witness ==
  /\ pc = "returned" /\ call = 1 /\ error = "none"
  /\ \E i, j \in BlockIndexes(chunks) :
       LET v == ExpectedTime(BlocksSinceCluster(chunks, i), fps)
       IN /\ i < j
          /\ v > 65535
          /\ FieldValue(chunks[i], buffer) = v % 65536
          /\ FieldValue(chunks[i], buffer) # v
          /\ Signed16(buffer[chunks[i].start + 2], buffer[chunks[i].start + 3]) < 0

====
